---- MODULE Spec2Model ----
(***************************************************************************)
(* Shrdlite: interpretation of parsed commands into DNF goals              *)
(* (Interpreter.ts), the physical laws (Physics.ts), and the planner's     *)
(* world graph, heuristic, goal test and plan emitter (Planner.ts).        *)
(*                                                                         *)
(* Conventions.  JavaScript null is the string "null", undefined the       *)
(* string "undefined"; an absent FoundObject is the record `undefined`.    *)
(* Stack ids and stack locations are 0-based as in the source; a stack is  *)
(* a sequence listed bottom to top, the stacks a sequence of stacks, so    *)
(* stack id i is element i+1 of the sequence.                              *)
(***************************************************************************)
EXTENDS Integers, Sequences, FiniteSets, TLC

VARIABLES
    pc,             \* position of the specification's process
    state,          \* WorldState: [stacks, holding, arm]
    \* ---- Physics, applied to drawn inputs
    topC, bottomC,  \* ObjectDefinitions handed to isStackingAllowedByPhysics
    relation, args, \* relation name and the identifiers it is asked about
    verdict,        \* result of the physics predicate applied
    \* ---- Interpreter
    chosenInterpretation, \* the number prefixed to the utterance, NaN if none
    cmd,            \* the parses handed to interpret
    interpretation, \* the InterpretationResults returned by interpret
    error,          \* message of the Error thrown, "" if none
    \* ---- Planner
    goal,           \* DNF handed to planInterpretation
    path,           \* SearchResult.path under construction / returned
    plan,           \* PlannerResult.plan
    plans,          \* the PlannerResults returned by Planner.plan
    armPos, holding, stacks, \* the world the emitted plan is executed on
    ip,             \* number of plan entries already executed
    fault           \* TRUE once an executed action was physically impossible

vars == << pc, state, topC, bottomC, relation, args, verdict,
           chosenInterpretation, cmd, interpretation, error, goal, path, plan,
           plans, armPos, holding, stacks, ip, fault >>

\* parseInt of the absent prefix; a prefix is a number of digits, never negative
NaN == -1

null == "null"
undefinedId == "undefined"
undefined == [undef |-> TRUE]

-----------------------------------------------------------------------------
(* Sequence helpers (Array.prototype methods used by the source).          *)

\* the concatenation of ss[lo..hi], halving the range
RECURSIVE FlattenFrom(_, _, _)
FlattenFrom(ss, lo, hi) ==
    IF lo > hi THEN << >>
    ELSE IF lo = hi THEN ss[lo]
    ELSE FlattenFrom(ss, lo, (lo + hi) \div 2) \o FlattenFrom(ss, (lo + hi) \div 2 + 1, hi)

\* the concatenation of the arrays of ss
Flatten(ss) == FlattenFrom(ss \o << >>, 1, Len(ss))

Range(s) == { s[i] : i \in DOMAIN s }

\* the element of a set of one element: a value computed once
Only(S) == CHOOSE x \in S : TRUE

Min2(a, b) == IF a <= b THEN a ELSE b

\* Array.prototype.indexOf: 0-based index of the first occurrence, -1 if none
indexOf(s, x) ==
    IF \E i \in DOMAIN s : s[i] = x
    THEN (CHOOSE i \in DOMAIN s : s[i] = x /\ \A j \in 1..(i-1) : s[j] # x) - 1
    ELSE -1

-----------------------------------------------------------------------------
(* The world's object dictionary (WorldState.objects).                      *)

Def(form, size, color) == [form |-> form, size |-> size, color |-> color]

\* definition the Interpreter gives the floor (filterExistingObjects)
FloorDef == Def("floor", null, null)
\* definition the Planner gives the floor (getObjectFromWorldState): null
NullDef == Def(null, null, null)

Forms == {"brick", "plank", "ball", "box", "pyramid", "table"}
Sizes == {"small", "large"}

\* identifiers of the dictionary, in Object.keys order
ObjectKeys == << "a", "b", "e", "f", "g", "k", "l", "m" >>

objects ==
    [ a |-> Def("brick", "large", "green"),
      b |-> Def("brick", "small", "white"),
      e |-> Def("ball",  "large", "white"),
      f |-> Def("ball",  "small", "black"),
      g |-> Def("table", "large", "blue"),
      k |-> Def("box",   "large", "yellow"),
      l |-> Def("box",   "large", "red"),
      m |-> Def("box",   "small", "blue") ]

WorldState(st, h, arm) == [stacks |-> st, holding |-> h, arm |-> arm]

-----------------------------------------------------------------------------
(* Physics                                                                  *)

FoundObject(definition, held, stackId, stackLoc, floor) ==
    [ definition |-> definition, held |-> held, stackId |-> stackId,
      stackLocation |-> stackLoc, floor |-> floor ]

isStackingAllowedByPhysics(top, bottom) ==
    \* Balls must be in boxes or on the floor
    IF top.form = "ball" /\ ~(bottom.form = "box" \/ bottom.form = "floor") THEN FALSE
    \* Balls cannot support anything
    ELSE IF bottom.form = "ball" THEN FALSE
    \* Small objects cannot support large objects
    ELSE IF bottom.size = "small" /\ top.size = "large" THEN FALSE
    \* Boxes cannot contain pyramids, planks or boxes of the same size
    ELSE IF bottom.form = "box" /\ bottom.size = top.size
            /\ (top.form = "plank" \/ top.form = "pyramid" \/ top.form = "box")
         THEN FALSE
    \* if (topC.form == "box") { small box ... }
    ELSE IF top.form = "box" /\ top.size = "small"
            /\ (bottom.form = "pyramid" \/ (bottom.form = "brick" \/ bottom.size = "small"))
         THEN FALSE
    \* ... large box on large pyramid
    ELSE IF top.form = "box" /\ top.size = "large" /\ bottom.size = "large"
            /\ bottom.form = "pyramid"
         THEN FALSE
    ELSE top.form # "floor"

\* Physics.hasValidLocation.  A held object can only satisfy "holding".
RECURSIVE hasValidLocation(_, _, _, _)
hasValidLocation(c1, rel, c2, c3) ==
    IF rel # "holding" /\ (c1.held \/ c2.held \/ (c3 # undefined /\ c3.held))
    THEN FALSE
    ELSE CASE rel = "leftof"  -> c1.stackId < c2.stackId
           [] rel = "rightof" -> c1.stackId > c2.stackId
           [] rel = "between" ->
                  \/ (c2.stackId < c1.stackId /\ c1.stackId < c3.stackId)
                  \/ (c3.stackId < c1.stackId /\ c1.stackId < c2.stackId)
           [] rel = "inside"  ->
                  IF c2.definition.size = "small" /\ c1.definition.size = "large"
                  THEN FALSE
                  ELSE /\ c1.stackId = c2.stackId
                       /\ c1.stackLocation - 1 = c2.stackLocation
                       /\ c2.definition.form = "box"
           [] rel = "ontop"   ->
                  IF c2.floor
                  THEN c1.stackLocation = 0
                  ELSE /\ c1.stackId = c2.stackId
                       /\ c1.stackLocation - 1 = c2.stackLocation
                       /\ isStackingAllowedByPhysics(c1.definition, c2.definition)
           [] rel = "under"   ->
                  c1.stackId = c2.stackId /\ c1.stackLocation < c2.stackLocation
           [] rel = "beside"  ->
                  \/ hasValidLocation(c1, "leftof", c2, undefined)
                  \/ hasValidLocation(c1, "rightof", c2, undefined)
           [] rel = "above"   ->
                  c1.stackId = c2.stackId /\ c1.stackLocation > c2.stackLocation
           [] rel = "holding" -> c1.held
           [] OTHER           -> FALSE

\* Physics.isValidGoalLocation: is the goal feasible at all
isValidGoalLocation(c1, rel, c2, c3) ==
    IF c1 = c2 \/ (c2 # undefined /\ c2 = c3) THEN FALSE
    ELSE IF c1.floor /\ rel # "under" THEN FALSE
    ELSE IF c2.floor /\ rel # "above" /\ rel # "ontop" THEN FALSE
    ELSE CASE rel \in {"rightof", "leftof", "beside", "between", "above", "under"} -> TRUE
           [] rel = "inside" ->
                  IF c2.definition.size = "small" /\ c1.definition.size = "large"
                  THEN FALSE
                  ELSE c2.definition.form = "box"
           [] rel = "ontop"  -> isStackingAllowedByPhysics(c1.definition, c2.definition)
           [] OTHER          -> FALSE

\* Physics.hasSameAttributes: does the parsed description fit the definition
hasSameAttributes(currObject, other) ==
    /\ (currObject.form = "anyform" \/ currObject.form = other.form)
    /\ (currObject.size = null \/ currObject.size = other.size)
    /\ (currObject.color = null \/ currObject.color = other.color)

\* Physics.getMinimalDescription: counts over every entry of the dictionary
getMinimalDescription(obj, objs) ==
    LET sameForm  == Cardinality({ n \in DOMAIN objs : obj.form = objs[n].form })
        sameColor == Cardinality({ n \in DOMAIN objs :
                         obj.form = objs[n].form /\ obj.color = objs[n].color })
    IN  IF sameForm = 1 THEN obj.form
        ELSE IF sameColor = 1 THEN obj.color \o " " \o obj.form
        ELSE obj.size \o " " \o obj.color \o " " \o obj.form

-----------------------------------------------------------------------------
(* Interpreter: the objects that exist in the world                         *)

onStacks(st, name) == \E i \in 1..Len(st.stacks) : indexOf(st.stacks[i], name) > -1

\* keys of the dictionary filterExistingObjects returns, in insertion order
existingKeys(st) ==
    SelectSeq(ObjectKeys, LAMBDA n : st.holding = n \/ onStacks(st, n)) \o << "floor" >>

\* existingObjects[name] of filterExistingObjects
existingObject(st, name) ==
    IF name = undefinedId THEN undefined
    ELSE IF name = "floor" THEN FoundObject(FloorDef, FALSE, -1, -1, TRUE)
    ELSE IF st.holding = name THEN FoundObject(objects[name], TRUE, -1, -1, FALSE)
    ELSE LET i == CHOOSE j \in 1..Len(st.stacks) :
                     /\ indexOf(st.stacks[j], name) > -1
                     /\ \A q \in (j+1)..Len(st.stacks) : indexOf(st.stacks[q], name) = -1
         IN  FoundObject(objects[name], FALSE, i - 1, indexOf(st.stacks[i], name), FALSE)

-----------------------------------------------------------------------------
(* Interpreter: parsed commands and candidates                              *)
(*                                                                         *)
(* An optional field of the parse tree is a sequence of length 0 or 1.  A  *)
(* Parser.Object is its root description together with its optional        *)
(* location (the nesting of the source is flattened by one level).         *)

Leaf(form, size, color) ==
    [form |-> form, size |-> size, color |-> color, location |-> << >>]
Nested(leaf, loc) == [leaf EXCEPT !.location = << loc >>]
Entity(q, o) == [quantifier |-> q, object |-> o]
Location(rel, e1, e2) == [relation |-> rel, entity |-> e1, entity2 |-> e2]
Command(c, e, loc) == [command |-> c, entity |-> e, location |-> loc]

Literal(rel, as) == [polarity |-> TRUE, relation |-> rel, args |-> as]

Candidates(main, rel, nested, nested2) ==
    [main |-> main, relation |-> rel, nested |-> nested, nested2 |-> nested2]

\* filterCandidate as it would be if the location of the descriptor were not
\* tested
filterCandidate_NoLocation(entity, st) ==
    Candidates(SelectSeq(existingKeys(st),
                         LAMBDA n : hasSameAttributes(entity.object,
                                                      existingObject(st, n).definition)),
               undefinedId, << >>, << >>)

\* Interpreter.filterCandidate
RECURSIVE filterCandidate(_, _)
filterCandidate(entity, st) ==
    LET rootObject == entity.object
        isNested == rootObject.location # << >>
        loc == rootObject.location[1]
        rel == IF isNested THEN loc.relation ELSE undefinedId
        nested == IF isNested THEN << filterCandidate(loc.entity, st) >> ELSE << >>
        nested2 == IF isNested /\ rel = "between"
                   THEN << filterCandidate(loc.entity2[1], st) >> ELSE << >>
        keys == existingKeys(st)
        obj(n) == existingObject(st, n)
        \* what the body of the loop over the names pushes for one name
        pushed(name) ==
            IF ~hasSameAttributes(rootObject, obj(name).definition) THEN << >>
            ELSE IF ~isNested THEN << name >>
            ELSE IF rel = "between"
            THEN LET n1 == nested[1].main
                     n2 == nested2[1].main
                     \* the break leaves the inner loop only
                     hits == { i \in DOMAIN n1 : \E j \in DOMAIN n2 :
                                 hasValidLocation(obj(name), "between", obj(n1[i]), obj(n2[j])) }
                 IN  [q \in 1..Cardinality(hits) |-> name]
            ELSE LET n1 == nested[1].main
                 IN  IF \E i \in DOMAIN n1 :
                            hasValidLocation(obj(name), rel, obj(n1[i]), undefined)
                     THEN << name >> ELSE << >>
    IN  Candidates(Flatten([i \in DOMAIN keys |-> pushed(keys[i])]), rel, nested, nested2)

-----------------------------------------------------------------------------
(* Interpreter: generating the DNF                                          *)

\* Interpreter.generateAnyDNF; main, goals, goals2 are the .main lists
generateAnyDNF(c, main, goals, goals2, st) ==
    IF c.command \in {"put", "move"}
    THEN Flatten([t \in DOMAIN main |-> Flatten([g \in DOMAIN goals |->
             IF c.location[1].relation = "between"
             THEN [o \in DOMAIN goals2 |->
                      << Literal("between", << main[t], goals[g], goals2[o] >>) >>]
             ELSE IF isValidGoalLocation(existingObject(st, main[t]),
                                         c.location[1].relation,
                                         existingObject(st, goals[g]), undefined)
                  THEN << << Literal(c.location[1].relation, << main[t], goals[g] >>) >> >>
                  ELSE << >>])])
    ELSE \* take
         Flatten([t \in DOMAIN main |->
             IF main[t] # "floor" THEN << << Literal("holding", << main[t] >>) >> >>
             ELSE << >>])

\* Interpreter.addCombinations / getCombinations: every array of the given
\* length over 0..highest, in the order the set receives them
RECURSIVE addCombinations(_, _, _)
addCombinations(a, length, highest) ==
    IF Len(a) = length THEN << a >>
    ELSE Flatten([i \in 1..(highest + 1) |->
                     addCombinations(Append(a, i - 1), length, highest)])

getCombinations(length, highest) == addCombinations(<< >>, length, highest)

\* createOneSidedAllDNF keeping the feasible literals of every assignment
createOneSidedAllDNF_NoAbort(candidates_1, candidates_2, st, rel, invertedRelation) ==
    LET assignments == getCombinations(Len(candidates_1), Len(candidates_2) - 1)
        targetC(asg, idx) == IF ~invertedRelation THEN candidates_1[idx]
                             ELSE candidates_2[asg[idx] + 1]
        goalC(asg, idx) == IF ~invertedRelation THEN candidates_2[asg[idx] + 1]
                           ELSE candidates_1[idx]
        conj(asg) ==
            Flatten([idx \in DOMAIN asg |->
                IF isValidGoalLocation(existingObject(st, targetC(asg, idx)), rel,
                                       existingObject(st, goalC(asg, idx)), undefined)
                THEN << Literal(rel, << targetC(asg, idx), goalC(asg, idx) >>) >>
                ELSE << >>])
    IN  Flatten([n \in DOMAIN assignments |->
                    IF Len(conj(assignments[n])) # 0 THEN << conj(assignments[n]) >>
                    ELSE << >>])

\* Interpreter.createOneSidedAllDNF
createOneSidedAllDNF(candidates_1, candidates_2, st, rel, invertedRelation) ==
    LET assignments == getCombinations(Len(candidates_1), Len(candidates_2) - 1)
        targetC(asg, idx) == IF ~invertedRelation THEN candidates_1[idx]
                             ELSE candidates_2[asg[idx] + 1]
        goalC(asg, idx) == IF ~invertedRelation THEN candidates_2[asg[idx] + 1]
                           ELSE candidates_1[idx]
        valid(asg, idx) == isValidGoalLocation(existingObject(st, targetC(asg, idx)), rel,
                                               existingObject(st, goalC(asg, idx)), undefined)
        \* "Abort if one literal is invalid"; "Only add possible assignments"
        conj(asg) == IF \A idx \in DOMAIN asg : valid(asg, idx)
                     THEN [idx \in DOMAIN asg |->
                              Literal(rel, << targetC(asg, idx), goalC(asg, idx) >>)]
                     ELSE << >>
    IN  Flatten([n \in DOMAIN assignments |->
                    IF Len(conj(assignments[n])) # 0 THEN << conj(assignments[n]) >>
                    ELSE << >>])

\* Interpreter.createTwoSidedBetweenAllDNF; notAllCandidate is 0, 1 or 2
createTwoSidedBetweenAllDNF(candidates, notAllCandidate) ==
    LET allCandidate1 == (notAllCandidate + 1) % 3
        allCandidate2 == (notAllCandidate + 2) % 3
        len(n) == Len(candidates[n + 1])
        assignments == getCombinations(len(allCandidate1) * len(allCandidate2),
                                       len(notAllCandidate) - 1)
        getIdx(n, idx, pairIdx) ==
            IF notAllCandidate = n THEN idx
            ELSE IF notAllCandidate = ((n + 1) % 3) THEN pairIdx % len(allCandidate2)
            ELSE pairIdx \div len(allCandidate2)
        lit(idx, pairIdx) ==
            Literal("between", << candidates[1][getIdx(0, idx, pairIdx) + 1],
                                  candidates[2][getIdx(1, idx, pairIdx) + 1],
                                  candidates[3][getIdx(2, idx, pairIdx) + 1] >>)
    IN  [n \in DOMAIN assignments |->
            [p \in DOMAIN assignments[n] |-> lit(assignments[n][p], p - 1)]]

\* Interpreter.createOneSidedBetweenAllDNF; allCandidate is 0, 1 or 2
createOneSidedBetweenAllDNF(candidates, allCandidate) ==
    LET nonCandidate1 == (allCandidate + 1) % 3
        nonCandidate2 == (allCandidate + 2) % 3
        len(n) == Len(candidates[n + 1])
        assignments == getCombinations(len(allCandidate),
                                       len(nonCandidate1) * len(nonCandidate2) - 1)
        getIdx(n, pairIdx, idx) ==
            IF allCandidate = n THEN idx
            ELSE IF allCandidate = ((n + 1) % 3) THEN pairIdx % len(nonCandidate2)
            ELSE pairIdx \div len(nonCandidate2)
        lit(pairIdx, idx) ==
            Literal("between", << candidates[1][getIdx(0, pairIdx, idx) + 1],
                                  candidates[2][getIdx(1, pairIdx, idx) + 1],
                                  candidates[3][getIdx(2, pairIdx, idx) + 1] >>)
    IN  [n \in DOMAIN assignments |->
            [p \in DOMAIN assignments[n] |-> lit(assignments[n][p], p - 1)]]

\* checkForDuplicate with the threshold of the flagged elements off by one
checkForDuplicate_MoreThanTwo(arg) ==
    Cardinality({ i \in DOMAIN arg :
                    Cardinality({ j \in DOMAIN arg : arg[j] = arg[i] }) > 1 }) > 2

\* checkForDuplicate of filterInvalidConjunction: more than one element of
\* arg occurs more than once in arg
checkForDuplicate(arg) ==
    Cardinality({ i \in DOMAIN arg :
                    Cardinality({ j \in DOMAIN arg : arg[j] = arg[i] }) > 1 }) > 1

\* filterInvalidConjunction looking at the first arguments only
filterInvalidConjunction_FirstArg(dnf) ==
    SelectSeq(dnf, LAMBDA conjunction :
        ~checkForDuplicate(SelectSeq([i \in DOMAIN conjunction |-> conjunction[i].args[1]],
                                     LAMBDA o : o # "floor")))

\* Interpreter.filterInvalidConjunction
filterInvalidConjunction(dnf) ==
    SelectSeq(dnf, LAMBDA conjunction :
        LET arg1 == SelectSeq([i \in DOMAIN conjunction |-> conjunction[i].args[1]],
                              LAMBDA o : o # "floor")
            arg2 == SelectSeq([i \in DOMAIN conjunction |-> conjunction[i].args[2]],
                              LAMBDA o : o # "floor")
        IN  ~checkForDuplicate(arg1) /\ ~checkForDuplicate(arg2))

\* a value returned, or the message of the Error thrown
Returned(v) == [value |-> v, error |-> ""]
Thrown(msg) == [value |-> << >>, error |-> msg]

\* allPairsDNF without the return on an infeasible pair
allPairsDNF_NoAbort(main, goals, st, rel) ==
    << Flatten([t \in DOMAIN main |-> Flatten([g \in DOMAIN goals |->
          IF existingObject(st, main[t]) # existingObject(st, goals[g])
          THEN << Literal(rel, << main[t], goals[g] >>) >> ELSE << >>])]) >>

\* "All combinations have to the satisfied": both sides of a binary relation
\* carry "all" (lines 919-937)
allPairsDNF(main, goals, st, rel) ==
    LET pairs == Flatten([t \in DOMAIN main |->
                    Flatten([g \in DOMAIN goals |->
                        IF existingObject(st, main[t]) # existingObject(st, goals[g])
                        THEN << << main[t], goals[g] >> >> ELSE << >>])])
    IN  IF \E i \in DOMAIN pairs :
              ~isValidGoalLocation(existingObject(st, pairs[i][1]), rel,
                                   existingObject(st, pairs[i][2]), undefined)
        THEN << >>
        ELSE << [i \in DOMAIN pairs |-> Literal(rel, pairs[i])] >>

\* Interpreter.generateAllDNF
generateAllDNF(c, main, goals, goals2, st) ==
    IF c.command \in {"move", "put"}
    THEN LET hasMainAll == c.entity # << >> /\ c.entity[1].quantifier = "all"
             hasGoalAll == c.location[1].entity.quantifier = "all"
             hasBetweenGoalAll == /\ c.location[1].entity2 # << >>
                                  /\ c.location[1].entity2[1].quantifier = "all"
             rel == c.location[1].relation
             cands == << main, goals, goals2 >>
         IN  IF rel \in {"leftof", "rightof", "beside", "above", "under", "inside", "ontop"}
             THEN LET dnf == IF hasMainAll /\ hasGoalAll
                             THEN allPairsDNF(main, goals, st, rel)
                             ELSE IF hasMainAll
                             THEN createOneSidedAllDNF(main, goals, st, rel, FALSE)
                             ELSE createOneSidedAllDNF(goals, main, st, rel, TRUE)
                  IN  Returned(IF rel = "ontop" \/ rel = "inside"
                               THEN filterInvalidConjunction(dnf) ELSE dnf)
             ELSE IF rel = "between"
             THEN Returned(
                  IF hasMainAll /\ hasGoalAll /\ hasBetweenGoalAll
                  THEN << Flatten([t \in DOMAIN main |-> Flatten([g \in DOMAIN goals |->
                             [o \in DOMAIN goals2 |->
                                 Literal("between", << main[t], goals[g], goals2[o] >>)]])]) >>
                  ELSE IF ~hasMainAll /\ hasGoalAll /\ hasBetweenGoalAll
                  THEN createTwoSidedBetweenAllDNF(cands, 0)
                  ELSE IF hasMainAll /\ ~hasGoalAll /\ hasBetweenGoalAll
                  THEN createTwoSidedBetweenAllDNF(cands, 1)
                  ELSE IF hasMainAll /\ hasGoalAll /\ ~hasBetweenGoalAll
                  THEN createTwoSidedBetweenAllDNF(cands, 2)
                  ELSE IF hasMainAll /\ ~hasGoalAll /\ ~hasBetweenGoalAll
                  THEN createOneSidedBetweenAllDNF(cands, 0)
                  ELSE IF ~hasMainAll /\ hasGoalAll /\ ~hasBetweenGoalAll
                  THEN createOneSidedBetweenAllDNF(cands, 1)
                  ELSE IF ~hasMainAll /\ ~hasGoalAll /\ hasBetweenGoalAll
                  THEN createOneSidedBetweenAllDNF(cands, 2)
                  ELSE << >>)
             ELSE Returned(<< >>)
    ELSE \* take
         IF Len(main) > 1 THEN Thrown("Only one object can be held at a time!")
         ELSE IF main = << >> \/ main[1] # "floor"
         THEN Returned(<< << Literal("holding", main) >> >>)
         ELSE Returned(<< >>)

-----------------------------------------------------------------------------
(* Interpreter: clarification and interpretCommand                          *)

TypeError == "TypeError"

RECURSIVE joinDescriptions(_)
joinDescriptions(descs) ==
    IF descs = << >> THEN ""
    ELSE IF Len(descs) = 1 THEN descs[1]
    ELSE descs[1] \o "|" \o joinDescriptions(Tail(descs))

\* throwGeneralClarificationError from conjunction i (0-based) on: the message
\* of the Error it throws, "" when it returns; candidateSet and the keys of
\* descriptionLookUp are kept in insertion order.  The conjunctions whose
\* candidate is already in candidateSet change nothing and are stepped over
\* at once.
RECURSIVE clarificationFrom(_, _, _, _, _, _, _)
clarificationFrom(interp, column, st, i, stepSize, candidateSet, descriptions) ==
    LET visited == { j \in i..(Len(interp) - 1) : (j - i) % stepSize = 0 }
        illFormed(j) == interp[j + 1] = << >> \/ Len(interp[j + 1][1].args) <= column
        acting == { j \in visited :
                      \/ illFormed(j)
                      \/ interp[j + 1][1].args[column + 1] \notin Range(candidateSet) }
    IN  IF acting = { }
        THEN IF Len(candidateSet) < 2 THEN ""
             ELSE "[ambiguity]" \o joinDescriptions(descriptions)
        ELSE \* the first conjunction that is ill-formed or brings a new candidate
             LET n == CHOOSE j \in acting : \A q \in acting : j <= q
                 candidateID == interp[n + 1][1].args[column + 1]
                 def == existingObject(st, candidateID).definition
                 descrString == "the " \o def.size \o " " \o def.color \o " " \o def.form
             IN  IF illFormed(n) THEN TypeError
                 ELSE IF descrString \in Range(descriptions)
                 THEN "The description " \o descrString \o " is ambiguous. Please specify."
                 ELSE clarificationFrom(interp, column, st, n + stepSize, stepSize,
                                        Append(candidateSet, candidateID),
                                        Append(descriptions, descrString))

\* Interpreter.throwGeneralClarificationError
throwGeneralClarificationError(interp, column, st, startingPosition, stepSize) ==
    clarificationFrom(interp, column, st, startingPosition, stepSize, << >>, << >>)

\* Interpreter.throwClarificationError
throwClarificationError(interp, column, st) ==
    throwGeneralClarificationError(interp, column, st, 0, 1)

\* Interpreter.throwBetweenClarificationError
throwBetweenClarificationError(interp, column, st) ==
    LET first == throwGeneralClarificationError(interp, column, st, 0, 2)
    IN  IF first # "" THEN first
        ELSE throwGeneralClarificationError(interp, column, st, 1, 2)

NoValidInterpretation == "Sentence has no valid interpretation in world"

hasAll(c) ==
    ~ /\ (c.entity = << >> \/ c.entity[1].quantifier # "all")
      /\ (c.location = << >> \/ c.location[1].entity.quantifier # "all")
      /\ (c.location = << >> \/ c.location[1].entity2 = << >>
            \/ c.location[1].entity2[1].quantifier # "all")

\* the candidates interpretCommand collects (lines 681-702)
mainCandidates(c, st) ==
    IF c.command # "put" THEN filterCandidate(c.entity[1], st)
    ELSE Candidates(IF st.holding = null THEN << >> ELSE << st.holding >>,
                    undefinedId, << >>, << >>)

goalLocationCandidates(c, st) ==
    IF c.location # << >> THEN filterCandidate(c.location[1].entity, st)
    ELSE Candidates(<< >>, undefinedId, << >>, << >>)

betweenSecondLocationCandidates(c, st) ==
    IF c.location # << >> /\ c.location[1].relation = "between"
    THEN filterCandidate(c.location[1].entity2[1], st)
    ELSE Candidates(<< >>, undefinedId, << >>, << >>)

\* the DNF interpretCommand generates (lines 706-719)
generatedDNF(c, st) ==
    IF ~hasAll(c)
    THEN Returned(generateAnyDNF(c, mainCandidates(c, st).main,
                                 goalLocationCandidates(c, st).main,
                                 betweenSecondLocationCandidates(c, st).main, st))
    ELSE generateAllDNF(c, mainCandidates(c, st).main,
                        goalLocationCandidates(c, st).main,
                        betweenSecondLocationCandidates(c, st).main, st)

\* the checks on the quantifier "the" (lines 732-752), first Error wins
clarification(c, interp, st) ==
    LET hasLocation == c.location # << >>
        isBetween == hasLocation /\ c.location[1].relation = "between"
        mainThe ==
            IF c.entity # << >> /\ c.entity[1].quantifier = "the"
            THEN IF isBetween /\ Len(interp) > 2
                 THEN throwBetweenClarificationError(interp, 0, st)
                 ELSE IF ~isBetween /\ Len(interp) > 1
                 THEN throwClarificationError(interp, 0, st)
                 ELSE ""
            ELSE ""
        goalThe ==
            IF hasLocation /\ c.location[1].entity.quantifier = "the"
            THEN IF isBetween /\ Len(interp) > 2
                 THEN throwBetweenClarificationError(interp, 1, st)
                 ELSE IF ~isBetween /\ Len(interp) > 1
                 THEN throwClarificationError(interp, 1, st)
                 ELSE ""
            ELSE ""
        goal2The ==
            IF isBetween /\ c.location[1].entity2[1].quantifier = "the"
                 /\ Len(interp) > 2
            THEN throwBetweenClarificationError(interp, 1, st)
            ELSE ""
    IN  IF mainThe # "" THEN mainThe
        ELSE IF goalThe # "" THEN goalThe
        ELSE goal2The

\* the outcome of interpretCommand once the DNF dnf is generated (lines 721-754)
interpretationOf(c, dnf, st) ==
    IF dnf.error # "" THEN dnf
    ELSE IF Len(dnf.value) = 0 THEN Thrown(NoValidInterpretation)
    ELSE Only({ IF err # "" THEN Thrown(err) ELSE dnf :
                    err \in { clarification(c, dnf.value, st) } })

\* Interpreter.interpretCommand
interpretCommand(c, st) ==
    Only({ interpretationOf(c, dnf, st) : dnf \in { generatedDNF(c, st) } })

\* what interpret does with the outcomes r of its parses: the results of the
\* parses that have an interpretation, or the first Error when there is none
interpretations(parses, r) ==
    Flatten([i \in DOMAIN parses |->
        IF r[i].error = ""
        THEN << [parse |-> parses[i], interpretation |-> r[i].value] >>
        ELSE << >>])

errors(r) ==
    Flatten([i \in DOMAIN r |-> IF r[i].error # "" THEN << r[i].error >> ELSE << >>])

\* interpret as it would be if the first failing parse ended it
interpret_ThrowOnAnyError(parses, st) ==
    Only({ IF Len(errors(r)) = 0
           THEN Returned(interpretations(parses, r))
           ELSE Thrown(errors(r)[1]) :
               r \in { [i \in DOMAIN parses |-> interpretCommand(parses[i], st)] } })

\* Interpreter.interpret
interpret(parses, st) ==
    Only({ IF Len(interpretations(parses, r)) # 0
           THEN Returned(interpretations(parses, r))
           ELSE Thrown(errors(r)[1]) :
               r \in { [i \in DOMAIN parses |-> interpretCommand(parses[i], st)] } })

-----------------------------------------------------------------------------
(* Planner: nodes, goal test, heuristic                                     *)

\* literal.args[i] (0-based as in the source); undefined past the end
Arg(literal, i) ==
    IF i + 1 <= Len(literal.args) THEN literal.args[i + 1] ELSE undefinedId

WorldStateNode(h, st) == [holding |-> h, stacks |-> st]

\* Planner.getObjectFromWorldState
getObjectFromWorldState(node, obj) ==
    IF obj = undefinedId THEN undefined
    ELSE IF obj = "floor" THEN FoundObject(NullDef, FALSE, -1, -1, TRUE)
    ELSE IF obj = node.holding THEN FoundObject(objects[obj], TRUE, -1, -1, FALSE)
    ELSE LET i == CHOOSE j \in 1..Len(node.stacks) :
                     /\ indexOf(node.stacks[j], obj) > -1
                     /\ \A q \in 1..(j-1) : indexOf(node.stacks[q], obj) = -1
         IN  FoundObject(objects[obj], FALSE, i - 1, indexOf(node.stacks[i], obj), FALSE)

literalHolds(node, literal) ==
    hasValidLocation(getObjectFromWorldState(node, Arg(literal, 0)),
                     literal.relation,
                     getObjectFromWorldState(node, Arg(literal, 1)),
                     getObjectFromWorldState(node, Arg(literal, 2)))

\* inner loop of isGoal: leaves with feasible = false at the first literal
\* that does not hold
RECURSIVE conjFeasible(_, _, _)
conjFeasible(node, conj, i) ==
    IF i > Len(conj) THEN TRUE
    ELSE IF ~literalHolds(node, conj[i]) THEN FALSE
    ELSE conjFeasible(node, conj, i + 1)

RECURSIVE isGoalFrom(_, _, _)
isGoalFrom(node, dnf, i) ==
    IF i > Len(dnf) THEN FALSE
    ELSE IF conjFeasible(node, dnf[i], 1) THEN TRUE
    ELSE isGoalFrom(node, dnf, i + 1)

isGoal_FirstOnly(node, dnf) ==
    \* mutant: the verdict on the first conjunction is returned
    Len(dnf) > 0 /\ conjFeasible(node, dnf[1], 1)

\* Planner.isGoal
isGoal(node, dnf) == isGoalFrom(node, dnf, 1)

\* Math.max(...[]) and Math.min(...[]) stand-ins
NegInfinity == -1000000
Infinity == 1000000

RECURSIVE MaxOf(_)
MaxOf(s) == IF s = << >> THEN NegInfinity
            ELSE LET r == MaxOf(Tail(s)) IN IF Head(s) >= r THEN Head(s) ELSE r

RECURSIVE MinOf(_)
MinOf(s) == IF s = << >> THEN Infinity
            ELSE LET r == MinOf(Tail(s)) IN IF Head(s) <= r THEN Head(s) ELSE r

\* state.stacks[o.stackId].length - o.stackLocation - 1
objectsAbove(node, o) == Len(node.stacks[o.stackId + 1]) - o.stackLocation - 1

\* body of the literal loop of Planner.heuristic
literalHeuristic(node, literal) ==
    LET o0 == getObjectFromWorldState(node, Arg(literal, 0))
        o1 == getObjectFromWorldState(node, Arg(literal, 1))
        o2 == getObjectFromWorldState(node, Arg(literal, 2))
        rel == literal.relation
    IN  IF hasValidLocation(o0, rel, o1, o2) THEN 0
        ELSE CASE rel \in {"beside", "rightof", "leftof"} ->
                    LET above_0 == IF ~o0.held THEN objectsAbove(node, o0) ELSE 0
                        above_1 == IF ~o1.held THEN objectsAbove(node, o1) ELSE 0
                    IN  (IF ~o0.held THEN 1 ELSE 0) + (IF ~o1.held THEN 1 ELSE 0)
                        + 2 * Min2(above_0, above_1)
               [] rel \in {"inside", "ontop"} ->
                    (IF ~o0.held THEN 2 * objectsAbove(node, o0) + 2 ELSE 1)
                    + (IF ~o1.held
                       THEN IF o1.floor
                            THEN 2 * MinOf([i \in 1..Len(node.stacks) |-> Len(node.stacks[i])])
                            ELSE 2 * objectsAbove(node, o1)
                       ELSE 1)
               [] rel = "under" ->
                    (IF ~o1.held THEN 2 * objectsAbove(node, o1) + 2 ELSE 1)
                    + (IF o0.held THEN 1 ELSE 0)
               [] rel = "above" ->
                    (IF ~o0.held THEN 2 * objectsAbove(node, o0) + 2 ELSE 1)
                    + (IF o1.held THEN 1 ELSE 0)
               [] rel = "holding" ->
                    IF ~o0.held THEN 2 * objectsAbove(node, o0) + 1 ELSE 0
               [] rel = "between" ->
                    LET stackDist == IF o1.stackId >= o2.stackId
                                     THEN o1.stackId - o2.stackId
                                     ELSE o2.stackId - o1.stackId
                    IN  IF o0.held
                        THEN IF stackDist > 1 THEN 1
                             ELSE 1 + 2 * Min2(objectsAbove(node, o1), objectsAbove(node, o2))
                        ELSE IF o1.held \/ o2.held THEN 1
                             ELSE 2 + 2 * Min2(objectsAbove(node, o0),
                                               Min2(objectsAbove(node, o1),
                                                    objectsAbove(node, o2)))
               [] OTHER -> 0

\* does the literal loop of Planner.heuristic throw a TypeError: it does when
\* it reads state.stacks[o.stackId].length of an object with stackId -1
literalThrows(node, literal) ==
    LET o0 == getObjectFromWorldState(node, Arg(literal, 0))
        o1 == getObjectFromWorldState(node, Arg(literal, 1))
        o2 == getObjectFromWorldState(node, Arg(literal, 2))
        rel == literal.relation
        noStack(o) == o.stackId = -1
    IN  IF hasValidLocation(o0, rel, o1, o2) THEN FALSE
        ELSE CASE rel \in {"beside", "rightof", "leftof"} ->
                    (~o0.held /\ noStack(o0)) \/ (~o1.held /\ noStack(o1))
               [] rel \in {"inside", "ontop"} ->
                    (~o0.held /\ noStack(o0)) \/ (~o1.held /\ ~o1.floor /\ noStack(o1))
               [] rel = "under" -> ~o1.held /\ noStack(o1)
               [] rel \in {"above", "holding"} -> ~o0.held /\ noStack(o0)
               [] rel = "between" ->
                    LET stackDist == IF o1.stackId >= o2.stackId
                                     THEN o1.stackId - o2.stackId
                                     ELSE o2.stackId - o1.stackId
                    IN  IF o0.held
                        THEN stackDist <= 1 /\ (noStack(o1) \/ noStack(o2))
                        ELSE ~(o1.held \/ o2.held)
                               /\ (noStack(o0) \/ noStack(o1) \/ noStack(o2))
               [] OTHER -> FALSE

\* Planner.heuristic throws: no literal of the formula is skipped
heuristicThrows(node, dnf) ==
    \E c \in DOMAIN dnf : \E i \in DOMAIN dnf[c] : literalThrows(node, dnf[c][i])

\* Planner.heuristic: minimum over the conjunctions of the maximum over
\* their literals
heuristic(node, dnf) ==
    MinOf([c \in 1..Len(dnf) |->
              MaxOf([i \in 1..Len(dnf[c]) |-> literalHeuristic(node, dnf[c][i])])])

-----------------------------------------------------------------------------
(* Planner: WorldStateGraph                                                 *)

Edge(from, to) == [from |-> from, to |-> to, cost |-> 1]

pop_Keep(stack) ==
    \* mutant: the picked object stays on its stack
    stack

top(stack) == stack[Len(stack)]
pop(stack) == SubSeq(stack, 1, Len(stack) - 1)

\* may the held object go on stack i (1-based here): lines 380-387
dropAllowed_NoPhysics(node, i) ==
    \* mutant: the physics test is left out
    TRUE

dropAllowed_EmptyOnly(node, i) ==
    \* mutant: the held object may only go on an empty stack
    Len(node.stacks[i]) = 0

dropAllowed(node, i) ==
    IF Len(node.stacks[i]) # 0
    THEN isStackingAllowedByPhysics(objects[node.holding], objects[top(node.stacks[i])])
    ELSE TRUE

\* the two loops of outgoingEdges, from stack index i on
RECURSIVE pickEdges(_, _)
pickEdges(node, i) ==
    IF i > Len(node.stacks) THEN << >>
    ELSE IF Len(node.stacks[i]) = 0 THEN pickEdges(node, i + 1)
    ELSE << Edge(node, WorldStateNode(top(node.stacks[i]),
                        [node.stacks EXCEPT ![i] = pop(@)])) >>
         \o pickEdges(node, i + 1)

RECURSIVE dropEdges(_, _)
dropEdges(node, i) ==
    IF i > Len(node.stacks) THEN << >>
    ELSE IF ~dropAllowed(node, i) THEN dropEdges(node, i + 1)
    ELSE << Edge(node, WorldStateNode(null,
                        [node.stacks EXCEPT ![i] = Append(@, node.holding)])) >>
         \o dropEdges(node, i + 1)

\* WorldStateGraph.outgoingEdges
outgoingEdges(node) ==
    IF node.holding = null THEN pickEdges(node, 1) ELSE dropEdges(node, 1)

-----------------------------------------------------------------------------
(* Planner: createInstructions                                              *)

movedObject_Before(lastState, nextState) ==
    \* mutant: the object is always located in the state before the action
    getObjectFromWorldState(lastState,
        IF nextState.holding = null THEN lastState.holding ELSE nextState.holding)

\* the object that changed place between two consecutive states, located
\* where it stands on a stack: lines 427-439
movedObject(lastState, nextState) ==
    IF nextState.holding = null
    THEN getObjectFromWorldState(nextState, lastState.holding)
    ELSE getObjectFromWorldState(lastState, nextState.holding)

armMoves_NoRight(armPosition, stackId) ==
    \* mutant: the "else if (armPosition < fullObj.stackId)" branch is lost
    IF armPosition > stackId
    THEN << "Moving left" >> \o [j \in 1..(armPosition - stackId) |-> "l"]
    ELSE << >>

armMoves_OneStep(armPosition, stackId) ==
    \* mutant: one step is emitted whatever the distance
    IF armPosition > stackId
    THEN << "Moving left", "l" >>
    ELSE IF armPosition < stackId
    THEN << "Moving right", "r" >>
    ELSE << >>

\* "Move arm to target/original stack": lines 441-453
armMoves(armPosition, stackId) ==
    IF armPosition > stackId
    THEN << "Moving left" >> \o [j \in 1..(armPosition - stackId) |-> "l"]
    ELSE IF armPosition < stackId
    THEN << "Moving right" >> \o [j \in 1..(stackId - armPosition) |-> "r"]
    ELSE << >>

\* mutant: no "d" is emitted after the narration of a drop
performAction_NoDrop(nextState, fullObj) ==
    IF nextState.holding = null
    THEN << "Dropping the " \o getMinimalDescription(fullObj.definition, objects) >>
    ELSE << "Picking up the " \o getMinimalDescription(fullObj.definition, objects), "p" >>

\* "Perform actual action": lines 455-463
performAction(nextState, fullObj) ==
    IF nextState.holding = null
    THEN << "Dropping the " \o getMinimalDescription(fullObj.definition, objects), "d" >>
    ELSE << "Picking up the " \o getMinimalDescription(fullObj.definition, objects), "p" >>

RECURSIVE instructionsFrom(_, _, _)
instructionsFrom(p, i, armPosition) ==
    IF i > Len(p) THEN << >>
    ELSE LET fullObj == movedObject(p[i - 1], p[i])
         IN  armMoves(armPosition, fullObj.stackId)
             \o performAction(p[i], fullObj)
             \o instructionsFrom(p, i + 1, fullObj.stackId)

\* Planner.createInstructions: the first state of the path only seeds lastState
createInstructions(armInit, p) == instructionsFrom(p, 2, armInit)

\* Planner.plan without the narration added to an empty plan
planOf_NoNarration(armInit, p) == createInstructions(armInit, p)

\* Planner.plan on one interpretation whose search returned path p
planOf(armInit, p) ==
    LET instr == createInstructions(armInit, p)
    IN  IF Len(instr) = 0 THEN << "That is already true!" >> ELSE instr

Actions == {"l", "r", "p", "d"}

\* the single-character actions of a plan, narration dropped
actionsOf(pl) == SelectSeq(pl, LAMBDA c : c \in Actions)

-----------------------------------------------------------------------------
(* Planning one interpretation and executing the plan                       *)
(*                                                                         *)
(* aStarSearch is modelled by its contract: the path it returns starts at  *)
(* the start node, follows outgoingEdges, visits no node twice (closed     *)
(* set) and ends at the first node of the path for which isGoal holds; on  *)
(* timeout the path is empty.  The executor consumes the single-character  *)
(* actions and skips narration.                                            *)

\* longest path (in edges) the search is followed to
MaxPath == 6

\* start worlds, each with the goals planned from it
PlanCases ==
    { [ state |-> WorldState(<< <<"a", "g", "b">>, << >>, << >> >>, null, 0),
        goals |-> { << << Literal("ontop", <<"a", "g">>) >> >>,
                    << << Literal("holding", <<"a">>) >>, << Literal("holding", <<"g">>) >> >>,
                    << << Literal("under", <<"b", "a">>) >> >>,
                    << << Literal("ontop", <<"g", "floor">>),
                          Literal("rightof", <<"b", "g">>) >> >>,
                    << >>,
                    << << >> >> } ],
      [ state |-> WorldState(<< <<"k">>, <<"f">>, <<"a", "m">> >>, null, 2),
        goals |-> { << << Literal("inside", <<"f", "k">>) >>,
                       << Literal("inside", <<"f", "m">>) >> >>,
                    << << Literal("beside", <<"m", "f">>) >> >>,
                    << << Literal("above", <<"a", "k">>) >> >>,
                    << << Literal("leftof", <<"a", "k">>) >> >>,
                    << << Literal("ontop", <<"m", "floor">>) >> >> } ],
      [ state |-> WorldState(<< <<"k", "f">>, <<"g">>, << >> >>, "b", 1),
        goals |-> { << << Literal("between", <<"b", "k", "g">>) >>,
                       << Literal("between", <<"b", "g", "k">>) >> >>,
                    << << Literal("between", <<"g", "k", "b">>) >> >>,
                    << << Literal("between", <<"b", "k", "b">>) >> >>,
                    << << Literal("holding", <<"b">>) >> >>,
                    << << Literal("ontop", <<"b", "g">>),
                          Literal("inside", <<"f", "k">>) >> >>,
                    << << Literal("holding", <<"f">>) >> >> } ] }

startNode == WorldStateNode(state.holding, state.stacks)
lastNode == path[Len(path)]

\* the paths the search can return once it has reached the path p: it stops
\* at the first goal node and follows at most MaxPath edges
RECURSIVE searchPaths(_, _)
searchPaths(p, interp) ==
    IF isGoal(p[Len(p)], interp) THEN { p }
    ELSE IF Len(p) > MaxPath THEN { }
    ELSE UNION { searchPaths(Append(p, outgoingEdges(p[Len(p)])[i].to), interp) :
                   i \in { j \in DOMAIN outgoingEdges(p[Len(p)]) :
                             outgoingEdges(p[Len(p)])[j].to \notin Range(p) } }

SearchTimedOut == "Search for goal timed out!"

\* Planner.planInterpretation: the outcomes the search allows, the
\* instructions of a path it returns or the Error of the timeout
planInterpretation(interp, st) ==
    { [path |-> p, value |-> createInstructions(st.arm, p), error |-> ""] :
        p \in searchPaths(<< WorldStateNode(st.holding, st.stacks) >>, interp) }
    \cup
    { [path |-> << >>, value |-> << >>, error |-> SearchTimedOut] :
        x \in { y \in {1} : ~isGoal(WorldStateNode(st.holding, st.stacks), interp) } }

\* the plan Planner.plan stores for the instructions planInterpretation returned
storedPlan(instructions) ==
    IF Len(instructions) = 0 THEN << "That is already true!" >> ELSE instructions

PlanInit ==
    /\ pc = "search"
    /\ \E c \in PlanCases : state = c.state /\ goal \in c.goals
    /\ path = << WorldStateNode(state.holding, state.stacks) >>
    /\ plan = << >>
    /\ error = ""
    /\ armPos = state.arm /\ holding = state.holding /\ stacks = state.stacks
    /\ ip = 0 /\ fault = FALSE
    /\ topC = FloorDef /\ bottomC = FloorDef
    /\ relation = "" /\ args = << >> /\ verdict = "unset"
    /\ cmd = << >> /\ interpretation = << >> /\ plans = << >> /\ chosenInterpretation = NaN

\* the search follows one more edge from the node it last reached
SearchExpand ==
    /\ pc = "search"
    /\ Len(path) <= MaxPath
    /\ ~isGoal(lastNode, goal)
    /\ \E i \in DOMAIN outgoingEdges(lastNode) :
          LET edge == outgoingEdges(lastNode)[i]
          IN  /\ edge.to \notin Range(path)
              /\ path' = Append(path, edge.to)
    /\ UNCHANGED << pc, state, topC, bottomC, relation, args, verdict, cmd, chosenInterpretation, plans,
                    interpretation, error, goal, plan, armPos, holding, stacks,
                    ip, fault >>

\* the search reaches a goal node: planInterpretation emits the instructions
\* and plan stores them
SearchReturn ==
    /\ pc = "search"
    /\ isGoal(lastNode, goal)
    /\ plan' = planOf(state.arm, path)
    /\ pc' = "execute"
    /\ UNCHANGED << state, topC, bottomC, relation, args, verdict, cmd, chosenInterpretation, plans,
                    interpretation, error, goal, path, armPos, holding, stacks,
                    ip, fault >>

\* the search runs out of time before it reaches a goal node: empty path,
\* planInterpretation throws
SearchTimeout ==
    /\ pc = "search"
    /\ ~isGoal(lastNode, goal)
    /\ path' = << >>
    /\ error' = SearchTimedOut
    /\ pc' = "failed"
    /\ UNCHANGED << state, topC, bottomC, relation, args, verdict, cmd, chosenInterpretation, plans,
                    interpretation, goal, plan, armPos, holding, stacks, ip,
                    fault >>

nextInstruction == plan[ip + 1]

ExecCommon ==
    /\ pc = "execute"
    /\ ip < Len(plan)
    /\ ip' = ip + 1
    /\ UNCHANGED << pc, state, topC, bottomC, relation, args, verdict, cmd, chosenInterpretation, plans,
                    interpretation, error, goal, path, plan >>

ExecNarration ==
    /\ ExecCommon
    /\ nextInstruction \notin Actions
    /\ UNCHANGED << armPos, holding, stacks, fault >>

ExecLeft ==
    /\ ExecCommon
    /\ nextInstruction = "l"
    /\ IF armPos > 0
       THEN armPos' = armPos - 1 /\ UNCHANGED fault
       ELSE fault' = TRUE /\ UNCHANGED armPos
    /\ UNCHANGED << holding, stacks >>

ExecRight ==
    /\ ExecCommon
    /\ nextInstruction = "r"
    /\ IF armPos < Len(stacks) - 1
       THEN armPos' = armPos + 1 /\ UNCHANGED fault
       ELSE fault' = TRUE /\ UNCHANGED armPos
    /\ UNCHANGED << holding, stacks >>

ExecPick ==
    /\ ExecCommon
    /\ nextInstruction = "p"
    /\ IF holding = null /\ Len(stacks[armPos + 1]) > 0
       THEN /\ holding' = top(stacks[armPos + 1])
            /\ stacks' = [stacks EXCEPT ![armPos + 1] = pop(@)]
            /\ UNCHANGED fault
       ELSE fault' = TRUE /\ UNCHANGED << holding, stacks >>
    /\ UNCHANGED armPos

ExecDrop ==
    /\ ExecCommon
    /\ nextInstruction = "d"
    /\ IF holding # null
       THEN /\ stacks' = [stacks EXCEPT ![armPos + 1] = Append(@, holding)]
            /\ holding' = null
            /\ UNCHANGED fault
       ELSE fault' = TRUE /\ UNCHANGED << holding, stacks >>
    /\ UNCHANGED armPos

\* the world the executed plan has left
reachedWorld == WorldState(stacks, holding, armPos)

\* the plan is executed: planning again for the same goal from the world reached
Replan ==
    /\ pc = "execute"
    /\ ip = Len(plan)
    /\ ~fault
    /\ \E o \in planInterpretation(goal, reachedWorld) :
          /\ path' = o.path
          /\ error' = o.error
          /\ plan' = IF o.error = "" THEN storedPlan(o.value) ELSE << >>
          /\ pc' = IF o.error = "" THEN "replanned" ELSE "failed"
    /\ ip' = 0
    /\ UNCHANGED << state, topC, bottomC, relation, args, verdict, cmd, chosenInterpretation, plans,
                    interpretation, goal, armPos, holding, stacks, fault >>

PlanNext ==
    \/ SearchExpand
    \/ SearchReturn
    \/ SearchTimeout
    \/ ExecNarration
    \/ ExecLeft
    \/ ExecRight
    \/ ExecPick
    \/ ExecDrop
    \/ Replan

SpecPlan == PlanInit /\ [][PlanNext]_vars

planExecuted == pc = "execute" /\ ip = Len(plan)

\* C1 (plan correctness): once every entry of the emitted plan has been
\* executed from the start world, gripper and stacks equal the last node of
\* the search path, and isGoal holds of them.
PlanCorrectness ==
    planExecuted =>
        /\ ~fault
        /\ WorldStateNode(holding, stacks) = lastNode
        /\ isGoal(WorldStateNode(holding, stacks), goal)

\* a plan with picks, drops and arm moves in both directions has been executed
PlanCorrectnessWitness ==
    /\ planExecuted
    /\ Len(path) >= 4
    /\ {"l", "r", "p", "d"} \subseteq Range(plan)

-----------------------------------------------------------------------------
(* The physical laws applied to drawn inputs                                *)

\* every form in both sizes, and the floor
StackingDefs == { Def(fo, si, "white") : fo \in Forms, si \in Sizes } \cup { FloorDef }

\* worlds over the dictionary: the small example world and two variations
ExampleWorlds ==
    { WorldState(<< <<"e">>, <<"g", "l">>, << >>, <<"k", "m", "f">>, << >> >>, null, 0),
      WorldState(<< << >>, <<"g", "l">>, <<"a">>, <<"k", "m">>, <<"b">> >>, "e", 2),
      WorldState(<< <<"a", "b">>, <<"k", "f">>, <<"g">>, << >>, <<"l">> >>, null, 4) }

BinaryRelations == {"leftof", "rightof", "inside", "ontop", "under", "beside", "above"}

PhysicsInit ==
    /\ \/ /\ pc = "stacking"
          /\ topC \in StackingDefs /\ bottomC \in StackingDefs
          /\ state = WorldState(<< >>, null, 0)
          /\ relation = "" /\ args = << >>
       \/ /\ pc = "location"
          /\ topC = FloorDef /\ bottomC = FloorDef
          /\ state \in ExampleWorlds
          /\ \/ /\ relation = "holding"
                /\ \E x \in Range(existingKeys(state)) : args = << x >>
             \/ /\ relation \in BinaryRelations
                /\ \E x, y \in Range(existingKeys(state)) : args = << x, y >>
             \/ /\ relation = "between"
                /\ \E x, y, z \in Range(existingKeys(state)) : args = << x, y, z >>
    /\ verdict = "unset"
    /\ cmd = << >> /\ interpretation = << >> /\ plans = << >> /\ chosenInterpretation = NaN /\ error = ""
    /\ goal = << >> /\ path = << >> /\ plan = << >>
    /\ armPos = 0 /\ holding = null /\ stacks = << >> /\ ip = 0 /\ fault = FALSE

argObject(i) == existingObject(state, IF i <= Len(args) THEN args[i] ELSE undefinedId)

PhysicsUnchanged ==
    UNCHANGED << state, topC, bottomC, relation, args, cmd, chosenInterpretation, plans, interpretation,
                 error, goal, path, plan, armPos, holding, stacks, ip, fault >>

CheckStacking ==
    /\ pc = "stacking"
    /\ verdict' = isStackingAllowedByPhysics(topC, bottomC)
    /\ pc' = "stacked"
    /\ PhysicsUnchanged

CheckLocation ==
    /\ pc = "location"
    /\ verdict' = hasValidLocation(argObject(1), relation, argObject(2), argObject(3))
    /\ pc' = "located"
    /\ PhysicsUnchanged

CheckGoalLocation ==
    /\ pc = "location"
    /\ relation # "holding"
    /\ verdict' = isValidGoalLocation(argObject(1), relation, argObject(2), argObject(3))
    /\ pc' = "goalChecked"
    /\ PhysicsUnchanged

PhysicsNext == CheckStacking \/ CheckLocation \/ CheckGoalLocation

SpecPhysics == PhysicsInit /\ [][PhysicsNext]_vars

-----------------------------------------------------------------------------
(* Interpreting the parses of an utterance in a world                       *)

Quantifiers == {"the", "any", "all"}

ball == Leaf("ball", null, null)
box == Leaf("box", null, null)
table == Leaf("table", null, null)
plank == Leaf("plank", null, null)
anyform == Leaf("anyform", null, null)
floor == Leaf("floor", null, null)
whiteBall == Leaf("ball", null, "white")
ballInBox == Nested(ball, Location("inside", Entity("any", box), << >>))
boxOnFloor == Nested(box, Location("ontop", Entity("the", floor), << >>))
tableBetween == Nested(table, Location("between", Entity("any", ball),
                                       << Entity("any", box) >>))

InterpWorlds ==
    { WorldState(<< <<"e">>, <<"k">>, <<"g">>, <<"l", "f">> >>, null, 0),
      WorldState(<< <<"k">>, <<"a">>, <<"l">> >>, "e", 1),
      WorldState(<< <<"a", "b">>, <<"g">>, <<"f">> >>, null, 2),
      WorldState(<< <<"k", "m">>, << >>, <<"g", "f">> >>, null, 0),
      WorldState(<< <<"e">>, <<"k">>, <<"g">>, <<"f">> >>, null, 3),
      WorldState(<< <<"k">>, <<"l">>, <<"m">>, <<"e">> >>, null, 1) }

TakeCommands ==
    { Command("take", << Entity(q, o) >>, << >>) :
        q \in Quantifiers,
        o \in {ball, box, whiteBall, plank, floor, ballInBox, tableBetween} }

BinaryCommands ==
    { Command("move", << Entity(q1, o1) >>, << Location(rel, Entity(q2, o2), << >>) >>) :
        q1 \in Quantifiers, o1 \in {ball, box},
        rel \in BinaryRelations,
        q2 \in Quantifiers, o2 \in {box, table, floor, anyform} }

PutCommands ==
    { Command("put", << >>, << Location(rel, Entity(q2, o2), << >>) >>) :
        rel \in BinaryRelations, q2 \in Quantifiers, o2 \in {box, table, floor, ball} }

BetweenCommands ==
    { Command("move", << Entity(q1, o1) >>,
              << Location("between", Entity(q2, o2), << Entity(q3, o3) >>) >>) :
        q1 \in Quantifiers, o1 \in {ball, box},
        q2 \in Quantifiers, o2 \in {box, table},
        q3 \in Quantifiers, o3 \in {box, table, ball} }

PutBetweenCommands ==
    { Command("put", << >>,
              << Location("between", Entity(q2, o2), << Entity(q3, o3) >>) >>) :
        q2 \in Quantifiers, o2 \in {box, ball, floor},
        q3 \in Quantifiers, o3 \in {box, table} }

\* "move the floor <relation> a ball", "... a box"
FloorCommands ==
    { Command("move", << Entity("the", floor) >>,
              << Location(rel, Entity("any", o2), << >>) >>) :
        rel \in BinaryRelations, o2 \in {ball, box} }

Commands ==
    TakeCommands \cup BinaryCommands \cup PutCommands \cup BetweenCommands
        \cup PutBetweenCommands \cup FloorCommands

\* "put the ball in a box on the floor" has two parses
AmbiguousParses ==
    { << Command("move", << Entity(q, ballInBox) >>,
                 << Location("ontop", Entity("the", floor), << >>) >>),
         Command("move", << Entity(q, ball) >>,
                 << Location("inside", Entity("any", boxOnFloor), << >>) >>) >> :
        q \in Quantifiers }

InterpInit ==
    /\ pc = "parsed"
    /\ state \in InterpWorlds
    /\ cmd \in { << c >> : c \in Commands } \cup AmbiguousParses
    /\ interpretation = << >> /\ error = "" /\ plans = << >> /\ chosenInterpretation = NaN
    /\ topC = FloorDef /\ bottomC = FloorDef
    /\ relation = "" /\ args = << >> /\ verdict = "unset"
    /\ goal = << >> /\ path = << >> /\ plan = << >>
    /\ armPos = 0 /\ holding = null /\ stacks = << >> /\ ip = 0 /\ fault = FALSE

\* Interpreter.interpret
Interpret ==
    /\ pc = "parsed"
    /\ \E r \in { interpret(cmd, state) } :
           /\ interpretation' = r.value
           /\ error' = r.error
           /\ pc' = IF r.error = "" THEN "interpreted" ELSE "rejected"
    /\ UNCHANGED << state, topC, bottomC, relation, args, verdict, cmd, chosenInterpretation, plans, goal,
                    path, plan, armPos, holding, stacks, ip, fault >>

InterpNext == Interpret

SpecInterp == InterpInit /\ [][InterpNext]_vars

-----------------------------------------------------------------------------
(* Interpreting the parses of one utterance and planning the results        *)

DriveWorlds ==
    { WorldState(<< <<"k", "f">>, <<"e">>, << >> >>, null, 0),
      WorldState(<< <<"k">>, <<"e">>, <<"f">>, << >> >>, null, 0),
      WorldState(<< <<"k", "f">>, <<"l">>, << >> >>, null, 0),
      WorldState(<< <<"e">>, <<"k", "f">>, <<"l">> >>, null, 2) }

\* the parser may list the two parses in either order
DriveParses ==
    AmbiguousParses \cup { << p[2], p[1] >> : p \in AmbiguousParses }

DriveInit ==
    /\ pc = "parsed"
    /\ state \in DriveWorlds
    /\ cmd \in DriveParses
    /\ interpretation = << >> /\ error = "" /\ plans = << >> /\ chosenInterpretation = NaN
    /\ topC = FloorDef /\ bottomC = FloorDef
    /\ relation = "" /\ args = << >> /\ verdict = "unset"
    /\ goal = << >> /\ path = << >> /\ plan = << >>
    /\ armPos = 0 /\ holding = null /\ stacks = << >> /\ ip = 0 /\ fault = FALSE

\* the outcomes of planInterpretation for each interpretation, one choice of
\* the search for each
planOutcomes(interps, st) ==
    { o \in [DOMAIN interps ->
               UNION { planInterpretation(interps[i].interpretation, st) :
                          i \in DOMAIN interps }] :
        \A i \in DOMAIN interps :
            o[i] \in planInterpretation(interps[i].interpretation, st) }

\* the PlannerResults of the interpretations planInterpretation did not throw on
plannerResults(interps, o) ==
    Flatten([i \in DOMAIN interps |->
        IF o[i].error = ""
        THEN << [parse |-> interps[i].parse,
                 interpretation |-> interps[i].interpretation,
                 plan |-> storedPlan(o[i].value)] >>
        ELSE << >>])

\* Planner.plan
Plan ==
    /\ pc = "interpreted"
    /\ \E o \in planOutcomes(interpretation, state) :
         \E r \in { plannerResults(interpretation, o) } :
           /\ plans' = r
           /\ error' = IF Len(r) # 0 THEN "" ELSE errors(o)[1]
           /\ pc' = IF Len(r) # 0 THEN "planned" ELSE "failed"
    /\ UNCHANGED << state, topC, bottomC, relation, args, verdict, cmd, chosenInterpretation, interpretation,
                    goal, path, plan, armPos, holding, stacks, ip, fault >>

DriveNext ==
    \/ Interpret
    \/ Plan

SpecDrive == DriveInit /\ [][DriveNext]_vars

-----------------------------------------------------------------------------
(* Shrdlite.parseUtteranceIntoPlan: from the parses of an utterance to the  *)
(* plan handed to the executor                                              *)

RECURSIVE generateEntityString(_)
RECURSIVE generateObjectString(_, _)
RECURSIVE generateLocationString(_)

generateEntityString(entity) ==
    entity.quantifier \o " " \o generateObjectString(entity.object, entity.quantifier = "all")

generateObjectString(obj, allQuantifier) ==
    IF obj.location = << >>
    THEN (IF obj.size # null THEN obj.size \o " " ELSE "")
         \o (IF obj.color # null THEN obj.color \o " " ELSE "")
         \o (IF obj.form = "anyform"
             THEN "object" \o (IF allQuantifier THEN "s" ELSE "")
             ELSE obj.form)
    ELSE generateObjectString([obj EXCEPT !.location = << >>], allQuantifier)
         \o " that " \o (IF allQuantifier THEN "are " ELSE "is ")
         \o generateLocationString(obj.location[1])

generateLocationString(location) ==
    (IF location.relation = "ontop" THEN "on top" ELSE location.relation)
    \o " " \o generateEntityString(location.entity)
    \o (IF location.relation = "between"
        THEN "and" \o generateEntityString(location.entity2[1])
        ELSE "")

generateInterpretationString(interp) ==
    (IF interp.parse.entity # << >>
     THEN generateEntityString(interp.parse.entity[1]) ELSE "")
    \o (CASE interp.parse.command = "move" -> " to be moved "
          [] interp.parse.command = "put"  -> " to be put "
          [] interp.parse.command = "take" -> " to be taken "
          [] OTHER -> "")
    \o generateLocationString(interp.parse.location[1])

RECURSIVE questionFrom(_, _)
questionFrom(interps, i) ==
    IF i > Len(interps) THEN ""
    ELSE (IF i > 1 THEN "|" ELSE "") \o generateInterpretationString(interps[i])
         \o questionFrom(interps, i + 1)

\* Shrdlite.generateUserQuestion: the message of the Error it throws; a parse
\* without location makes generateLocationString read a property of undefined
generateUserQuestion(interps) ==
    IF \E i \in DOMAIN interps : interps[i].parse.location = << >>
    THEN TypeError
    ELSE "[parsing]" \o questionFrom(interps, 1)

tooFewInterpretations(parses) ==
    "The command entered has only " \o ToString(Len(parses)) \o " possible interpretations"

\* what parseUtteranceIntoPlan leaves: the interpretations kept, the plans,
\* the plan returned, the message printed as an error
Outcome(at, interps, pls, pl, err) ==
    [pc |-> at, interpretation |-> interps, plans |-> pls, plan |-> pl, error |-> err]

\* the planning step of parseUtteranceIntoPlan, for each choice of the search
planningOutcomes(interps, st) ==
    { Only({ IF Len(r) # 0
             THEN Outcome("execute", interps, r, r[1].plan, "")
             ELSE Outcome("failed", interps, << >>, << >>, errors(o)[1]) :
                 r \in { plannerResults(interps, o) } }) :
        o \in planOutcomes(interps, st) }

\* parseUtteranceIntoPlan as it would be if the prefix were not read
utteranceOutcomes_NoChoice(parses, st, chosen) ==
    UNION { IF r.error # ""
            THEN { Outcome("rejected", << >>, << >>, << >>, r.error) }
            ELSE planningOutcomes(r.value, st) :
                r \in { interpret(parses, st) } }

\* parseUtteranceIntoPlan after the parsing step
utteranceOutcomes(parses, st, chosen) ==
    UNION { IF r.error # ""
            THEN { Outcome("rejected", << >>, << >>, << >>, r.error) }
            ELSE IF Len(r.value) > 1 /\ chosen = NaN
            THEN { Outcome("asked", r.value, << >>, << >>, generateUserQuestion(r.value)) }
            ELSE IF Len(r.value) > 1 /\ Len(r.value) <= chosen
            THEN { Outcome("aborted", r.value, << >>, << >>, tooFewInterpretations(parses)) }
            ELSE IF Len(r.value) > 1
            THEN planningOutcomes(<< r.value[chosen + 1] >>, st)
            ELSE planningOutcomes(r.value, st) :
                r \in { interpret(parses, st) } }

\* the prefixes "(0) ", "(1) ", "(2) " and none
Prefixes == {NaN, 0, 1, 2}

UtterInit ==
    /\ pc = "parsed"
    /\ state \in DriveWorlds
    /\ cmd \in DriveParses
    /\ chosenInterpretation \in Prefixes
    /\ interpretation = << >> /\ error = "" /\ plans = << >> /\ plan = << >>
    /\ armPos = state.arm /\ holding = state.holding /\ stacks = state.stacks
    /\ ip = 0 /\ fault = FALSE
    /\ topC = FloorDef /\ bottomC = FloorDef
    /\ relation = "" /\ args = << >> /\ verdict = "unset"
    /\ goal = << >> /\ path = << >>

\* Shrdlite.parseUtteranceIntoPlan
ParseUtteranceIntoPlan ==
    /\ pc = "parsed"
    /\ \E u \in utteranceOutcomes(cmd, state, chosenInterpretation) :
          /\ pc' = u.pc
          /\ interpretation' = u.interpretation
          /\ plans' = u.plans
          /\ plan' = u.plan
          /\ error' = u.error
    /\ UNCHANGED << state, topC, bottomC, relation, args, verdict, cmd,
                    chosenInterpretation, goal, path, armPos, holding, stacks,
                    ip, fault >>

UtterNext ==
    \/ ParseUtteranceIntoPlan
    \/ ExecNarration
    \/ ExecLeft
    \/ ExecRight
    \/ ExecPick
    \/ ExecDrop

SpecUtter == UtterInit /\ [][UtterNext]_vars

-----------------------------------------------------------------------------
(* Properties of the physical laws                                          *)

\* the seven laws as listed
violatesLaw(t, b) ==
    \/ t.form = "ball" /\ b.form \notin {"box", "floor"}
    \/ b.form = "ball"
    \/ t.size = "large" /\ b.size = "small"
    \/ b.form = "box" /\ t.form \in {"plank", "pyramid", "box"} /\ t.size = b.size
    \/ t.form = "box" /\ t.size = "small"
         /\ ((b.form = "brick" /\ b.size = "small") \/ b.size = "small" \/ b.form = "pyramid")
    \/ t.form = "box" /\ t.size = "large" /\ b.form = "pyramid" /\ b.size = "large"
    \/ t.form = "floor"

\* C5: isStackingAllowed(top, bottom) is false exactly when the pair violates
\* one of the seven listed laws, and true for every other pair.
StackingLaws ==
    pc = "stacked" => (verdict = ~violatesLaw(topC, bottomC))

absDiff(x, y) == IF x >= y THEN x - y ELSE y - x

\* C7: hasValidLocation(a, beside, b) is true iff neither object is held and
\* their stack indices differ by exactly 1.
BesideAdjacent ==
    (pc = "located" /\ relation = "beside" /\ "floor" \notin Range(args)) =>
        (verdict = (/\ ~argObject(1).held
                    /\ ~argObject(2).held
                    /\ absDiff(argObject(1).stackId, argObject(2).stackId) = 1))

-----------------------------------------------------------------------------
(* Properties of the planner                                                *)

searching == pc = "search" /\ path # << >>

conjunctionHolds(node, conj) == \A i \in DOMAIN conj : literalHolds(node, conj[i])

\* C3 (goal test coincidence): isGoal(n, goal) iff some conjunction of the
\* goal has all its literals satisfied by hasValidLocation in n; so the empty
\* DNF is never a goal and a DNF with an empty conjunction always is.
GoalTestCoincidence ==
    searching =>
        /\ isGoal(lastNode, goal)
             <=> \E c \in DOMAIN goal : conjunctionHolds(lastNode, goal[c])
        /\ goal = << >> => ~isGoal(lastNode, goal)
        /\ (\E c \in DOMAIN goal : goal[c] = << >>) => isGoal(lastNode, goal)

\* the search reached a node where a later conjunction holds and the first
\* does not
GoalTestWitness ==
    /\ searching
    /\ Len(path) >= 2
    /\ Len(goal) >= 2
    /\ isGoal(lastNode, goal)
    /\ ~conjunctionHolds(lastNode, goal[1])

nonEmptyStacks(node) == { i \in 1..Len(node.stacks) : Len(node.stacks[i]) > 0 }

legalDropStacks(node) ==
    { i \in 1..Len(node.stacks) :
        \/ Len(node.stacks[i]) = 0
        \/ isStackingAllowedByPhysics(objects[node.holding], objects[top(node.stacks[i])]) }

successorsOf(node) ==
    IF node.holding = null
    THEN { WorldStateNode(top(node.stacks[i]), [node.stacks EXCEPT ![i] = pop(@)]) :
             i \in nonEmptyStacks(node) }
    ELSE { WorldStateNode(null, [node.stacks EXCEPT ![i] = Append(@, node.holding)]) :
             i \in legalDropStacks(node) }

\* C6 (successor relation): with an empty gripper one successor per non-empty
\* stack; holding h one successor per stack that is empty or whose top may
\* carry h; every edge leaves the node, costs 1, and there is no other edge.
SuccessorRelation ==
    searching =>
        LET edges == outgoingEdges(lastNode)
        IN  /\ { edges[i].to : i \in DOMAIN edges } = successorsOf(lastNode)
            /\ Len(edges) = (IF lastNode.holding = null
                             THEN Cardinality(nonEmptyStacks(lastNode))
                             ELSE Cardinality(legalDropStacks(lastNode)))
            /\ \A i \in DOMAIN edges : edges[i].cost = 1 /\ edges[i].from = lastNode

\* the search stands at a node holding an object that some stack must refuse,
\* with an empty stack to drop it on
SuccessorWitness ==
    /\ searching
    /\ Len(path) >= 2
    /\ lastNode.holding # null
    /\ \E i \in 1..Len(lastNode.stacks) : Len(lastNode.stacks[i]) = 0
    /\ legalDropStacks(lastNode) # 1..Len(lastNode.stacks)

-----------------------------------------------------------------------------
(* Interpreter properties                                                   *)

interpreted == pc \in {"interpreted", "rejected"}

\* the formulas interpret returned for the parse p
resultsOf(p) ==
    { interpretation[k].interpretation :
        k \in { n \in DOMAIN interpretation : interpretation[n].parse = p } }

isMoveOrPut(p) == p.command \in {"move", "put"}

\* C4: a returned formula of a command whose entity is quantified "the"
\* binds one and the same identifier at argument 0 of the first literal of
\* every conjunction
TheBindsOneObject ==
    \A p \in Range(cmd) : \A dnf \in resultsOf(p) :
        (p.entity # << >> /\ p.entity[1].quantifier = "the")
            => \A x, y \in DOMAIN dnf :
                   (dnf[x] # << >> /\ dnf[y] # << >>)
                       => dnf[x][1].args[1] = dnf[y][1].args[1]

\* C8: without "all", the formula of a move or put holds the one-literal
\* conjunction of a pair (a triple for between) of the candidates exactly
\* when isValidGoalLocation holds for it
AnyDNFMatchesValidity ==
    \A p \in Range(cmd) : \A dnf \in resultsOf(p) :
        (isMoveOrPut(p) /\ ~hasAll(p)) =>
            LET M == mainCandidates(p, state).main
                G == goalLocationCandidates(p, state).main
                G2 == betweenSecondLocationCandidates(p, state).main
                rel == p.location[1].relation
                obj(n) == existingObject(state, n)
            IN  IF rel = "between"
                THEN \A t \in Range(M), g \in Range(G), o \in Range(G2) :
                        (<< Literal("between", << t, g, o >>) >> \in Range(dnf))
                            <=> isValidGoalLocation(obj(t), "between", obj(g), obj(o))
                ELSE \A t \in Range(M), g \in Range(G) :
                        (<< Literal(rel, << t, g >>) >> \in Range(dnf))
                            <=> isValidGoalLocation(obj(t), rel, obj(g), undefined)

\* C9: every literal of the formula of a put has the held object as argument
\* 0, and with an empty arm the put is rejected with the message of
\* NoValidInterpretation
PutUsesHeldObject ==
    \A p \in Range(cmd) :
        p.command = "put" =>
            /\ \A dnf \in resultsOf(p) : \A x \in DOMAIN dnf : \A y \in DOMAIN dnf[x] :
                   dnf[x][y].args[1] = state.holding
            /\ (interpreted /\ state.holding = null) =>
                   (resultsOf(p) = {} /\ error = NoValidInterpretation)

isBothAll(p) ==
    /\ p.command = "move"
    /\ p.location[1].relation \in BinaryRelations
    /\ p.entity[1].quantifier = "all"
    /\ p.location[1].entity.quantifier = "all"

\* the pairs of the cross product of the candidates of p
crossProduct(p) ==
    { << t, g >> : t \in Range(mainCandidates(p, state).main),
                   g \in Range(goalLocationCandidates(p, state).main) }

pairValid(p, pr) ==
    isValidGoalLocation(existingObject(state, pr[1]), p.location[1].relation,
                        existingObject(state, pr[2]), undefined)

\* C10 as stated: with "all" on both sides the formula is empty as soon as
\* one pair of the full cross product is not a valid goal location, and is
\* otherwise one conjunction holding the literal of every pair
BothAllFullCrossProduct ==
    \A p \in Range(cmd) :
        (interpreted /\ isBothAll(p)) =>
            /\ (\E pr \in crossProduct(p) : ~pairValid(p, pr)) => resultsOf(p) = {}
            /\ \A dnf \in resultsOf(p) :
                   /\ Len(dnf) = 1
                   /\ \A pr \in crossProduct(p) :
                          Literal(p.location[1].relation, pr) \in Range(dnf[1])

\* C10: with "all" on both sides the pairs of an object with itself are left
\* out; the command is rejected as soon as one pair of two different objects
\* is not a valid goal location, and a returned formula is one conjunction
\* holding exactly the literals of the pairs of two different objects; it is
\* returned whenever those pairs are all valid and the relation is neither
\* ontop nor inside
BothAllDistinctPairs ==
    \A p \in Range(cmd) :
        (interpreted /\ isBothAll(p)) =>
            LET pairs == { pr \in crossProduct(p) : pr[1] # pr[2] }
                rel == p.location[1].relation
            IN  /\ (\E pr \in pairs : ~pairValid(p, pr)) => resultsOf(p) = {}
                /\ \A dnf \in resultsOf(p) :
                       /\ Len(dnf) = 1
                       /\ Range(dnf[1]) = { Literal(rel, pr) : pr \in pairs }
                /\ ((\A pr \in pairs : pairValid(p, pr)) /\ rel \notin {"ontop", "inside"})
                       => resultsOf(p) # {}

\* an object is a candidate of both sides and the formula was returned
BothAllWitness ==
    \E p \in Range(cmd) :
        /\ interpreted /\ isBothAll(p)
        /\ \E pr \in crossProduct(p) : pr[1] = pr[2]
        /\ \E dnf \in resultsOf(p) : Len(dnf) = 1 /\ Len(dnf[1]) >= 2

\* exactly one of the two sides of the binary relation of p carries "all"
mainAll(p) == p.entity # << >> /\ p.entity[1].quantifier = "all"
goalAll(p) == p.location[1].entity.quantifier = "all"

isOneSidedAll(p) ==
    /\ isMoveOrPut(p)
    /\ p.location[1].relation \in BinaryRelations
    /\ mainAll(p) # goalAll(p)

\* the candidates of the side of p that carries "all", and of the other side
allSide(p) ==
    IF mainAll(p) THEN mainCandidates(p, state).main
    ELSE goalLocationCandidates(p, state).main
otherSide(p) ==
    IF mainAll(p) THEN goalLocationCandidates(p, state).main
    ELSE mainCandidates(p, state).main

\* the DNF generateAllDNF builds for p before the filter of ontop and inside
oneSidedDNF(p) ==
    IF mainAll(p)
    THEN createOneSidedAllDNF(allSide(p), otherSide(p), state, p.location[1].relation, FALSE)
    ELSE createOneSidedAllDNF(allSide(p), otherSide(p), state, p.location[1].relation, TRUE)

\* the literal of element i of the all side mapped to element j of the other
\* side: the target is argument 0, the goal argument 1
mappedLiteral(p, i, j) ==
    IF mainAll(p)
    THEN Literal(p.location[1].relation, << allSide(p)[i], otherSide(p)[j] >>)
    ELSE Literal(p.location[1].relation, << otherSide(p)[j], allSide(p)[i] >>)

mappedValid(p, i, j) ==
    pairValid(p, mappedLiteral(p, i, j).args)

\* the conjunctions of the mappings of the all side into the other side in
\* which every literal is a valid goal location
validMappings(p) ==
    { [i \in DOMAIN allSide(p) |-> mappedLiteral(p, i, f[i])] :
        f \in { g \in [DOMAIN allSide(p) -> DOMAIN otherSide(p)] :
                  \A i \in DOMAIN allSide(p) : mappedValid(p, i, g[i]) } }

\* C11 as stated: with "all" on exactly one side the DNF before the filter
\* holds exactly the mappings of the all side into the other side whose
\* literals are all valid, once each, every conjunction with one literal per
\* element of the all side
OneSidedAllMappings ==
    \A p \in Range(cmd) :
        (interpreted /\ isOneSidedAll(p)) =>
            /\ Range(oneSidedDNF(p)) = validMappings(p)
            /\ Len(oneSidedDNF(p)) = Cardinality(validMappings(p))
            /\ \A x \in DOMAIN oneSidedDNF(p) : Len(oneSidedDNF(p)[x]) = Len(allSide(p))

\* C11: with "all" on exactly one side and at least one candidate on that
\* side, the DNF before the filter holds exactly the mappings of the all side
\* into the other side whose literals are all valid, once each, every
\* conjunction with one literal per element of the all side, the target in
\* argument 0; with no candidate on the all side the DNF is empty
OneSidedAllNonEmptyMappings ==
    \A p \in Range(cmd) :
        (interpreted /\ isOneSidedAll(p)) =>
            IF Len(allSide(p)) = 0 THEN oneSidedDNF(p) = << >>
            ELSE /\ Range(oneSidedDNF(p)) = validMappings(p)
                 /\ Len(oneSidedDNF(p)) = Cardinality(validMappings(p))
                 /\ \A x \in DOMAIN oneSidedDNF(p) :
                        Len(oneSidedDNF(p)[x]) = Len(allSide(p))

\* a formula of two mappings of a goal side of two objects was returned, and
\* some mapping was discarded
OneSidedAllWitness ==
    \E p \in Range(cmd) :
        /\ interpreted /\ isOneSidedAll(p) /\ ~mainAll(p)
        /\ Len(allSide(p)) >= 2 /\ Len(otherSide(p)) >= 2
        /\ Len(oneSidedDNF(p)) >= 2
        /\ Len(oneSidedDNF(p)) < Cardinality([DOMAIN allSide(p) -> DOMAIN otherSide(p)])
        /\ oneSidedDNF(p) \in resultsOf(p)

isAllOntopInside(p) ==
    /\ isMoveOrPut(p) /\ hasAll(p)
    /\ p.location[1].relation \in {"ontop", "inside"}

\* the DNF generateAllDNF builds for p before the filter of ontop and inside
preFilterDNF(p) ==
    IF mainAll(p) /\ goalAll(p)
    THEN allPairsDNF(mainCandidates(p, state).main, goalLocationCandidates(p, state).main,
                     state, p.location[1].relation)
    ELSE oneSidedDNF(p)

\* two literals of the conjunction put different objects on one target that
\* is not the floor
supportConflict(conjunction) ==
    \E x, y \in DOMAIN conjunction :
        /\ conjunction[x].args[2] = conjunction[y].args[2]
        /\ conjunction[x].args[2] # "floor"
        /\ conjunction[x].args[1] # conjunction[y].args[1]

\* C12: for ontop and inside with an "all" quantifier no conjunction of a
\* returned DNF puts two different objects on the same target other than the
\* floor, and every generated conjunction that does is removed
NoSupportConflict ==
    \A p \in Range(cmd) :
        (interpreted /\ isAllOntopInside(p)) =>
            \A dnf \in resultsOf(p) :
                /\ \A x \in DOMAIN dnf : ~supportConflict(dnf[x])
                /\ \A x \in DOMAIN preFilterDNF(p) :
                       supportConflict(preFilterDNF(p)[x])
                           => preFilterDNF(p)[x] \notin Range(dnf)

\* a conjunction with a conflict was generated and removed, another returned
NoSupportConflictWitness ==
    \E p \in Range(cmd) :
        /\ interpreted /\ isAllOntopInside(p)
        /\ \E x \in DOMAIN preFilterDNF(p) : supportConflict(preFilterDNF(p)[x])
        /\ \E dnf \in resultsOf(p) : Len(dnf) >= 1 /\ Len(dnf[1]) >= 2

\* "move all X inside a Y": X has two or more candidates, Y the single
\* candidate m, and every inside(x, m) is a valid goal location
allInsideOneBox(p) ==
    /\ p.command = "move" /\ p.location[1].relation = "inside"
    /\ mainAll(p) /\ ~goalAll(p)
    /\ Len(mainCandidates(p, state).main) >= 2
    /\ Len(goalLocationCandidates(p, state).main) = 1
    /\ \A i \in DOMAIN mainCandidates(p, state).main :
           pairValid(p, << mainCandidates(p, state).main[i],
                           goalLocationCandidates(p, state).main[1] >>)

\* the conjunction of inside(x, m) for every x of X
allInsideConjunction(p) ==
    [i \in DOMAIN mainCandidates(p, state).main |->
        Literal("inside", << mainCandidates(p, state).main[i],
                             goalLocationCandidates(p, state).main[1] >>)]

\* C13 as stated: "move all X inside a Y" with one box for two or more
\* objects returns the DNF of the single conjunction of every inside(x, m)
AllInsideOneBoxReturned ==
    \A p \in Range(cmd) :
        (interpreted /\ allInsideOneBox(p)) =>
            resultsOf(p) = { << allInsideConjunction(p) >> }

\* C13: "move all X inside a Y" with one box for two or more objects is
\* rejected: the conjunction of every inside(x, m) is generated and removed
\* by the filter, and no formula is returned for the parse
AllInsideOneBoxRejected ==
    \A p \in Range(cmd) :
        (interpreted /\ allInsideOneBox(p)) =>
            /\ preFilterDNF(p) = << allInsideConjunction(p) >>
            /\ resultsOf(p) = {}
            /\ Len(cmd) = 1 => error = NoValidInterpretation

\* two balls and one box that can contain either: the command was rejected
AllInsideOneBoxWitness ==
    \E p \in Range(cmd) :
        /\ interpreted /\ allInsideOneBox(p)
        /\ pc = "rejected"
        /\ Len(mainCandidates(p, state).main) = 2

isTakeAll(p) == p.command = "take" /\ p.entity[1].quantifier = "all"

\* C14: a take with "all" returns [[holding(m)]] exactly when its entity has
\* the one candidate m, not the floor; otherwise it is rejected with an error
\* and no holding literal without an argument is returned
TakeAllOneCandidate ==
    \A p \in Range(cmd) :
        (interpreted /\ isTakeAll(p)) =>
            LET main == mainCandidates(p, state).main
            IN  IF Len(main) = 1 /\ main[1] # "floor"
                THEN resultsOf(p) = { << << Literal("holding", << main[1] >>) >> >> }
                ELSE /\ resultsOf(p) = {}
                     /\ error # ""

\* the k-th smallest member of a set of positions
nthOf(S, k) == CHOOSE i \in S : Cardinality({ j \in S : j < i }) = k - 1

\* the instructions planInterpretation can return for an interpretation
returnedPlans(interp, st) ==
    { storedPlan(o.value) : o \in { x \in planInterpretation(interp, st) : x.error = "" } }

canThrow(interp, st) ==
    \E o \in planInterpretation(interp, st) : o.error # ""

\* the results of interpret are those of the parses in ok, in parse order
resultsInParseOrder(r, ok) ==
    /\ Len(interpretation) = Cardinality(ok)
    /\ \A k \in DOMAIN interpretation :
         interpretation[k] = [parse |-> cmd[nthOf(ok, k)],
                              interpretation |-> r[nthOf(ok, k)].value]

\* the results of plan are those of the interpretations in sel, in order
plansInOrder(sel) ==
    /\ Len(plans) = Cardinality(sel)
    /\ \A n \in DOMAIN plans :
         /\ plans[n].parse = interpretation[nthOf(sel, n)].parse
         /\ plans[n].interpretation = interpretation[nthOf(sel, n)].interpretation
         /\ plans[n].plan \in returnedPlans(plans[n].interpretation, state)
    /\ \A k \in DOMAIN interpretation \ sel :
         canThrow(interpretation[k].interpretation, state)

\* C15: interpret returns, in parse order, exactly the results of the parses
\* that succeeded when at least one succeeds, and throws the error of the first
\* parse only when every parse fails; plan applies the same policy to the
\* interpretations, an interpretation being left out only if planning it throws
ErrorSuppression ==
    \A r \in { [i \in DOMAIN cmd |-> interpretCommand(cmd[i], state)] } :
      \A ok \in { { i \in DOMAIN cmd : r[i].error = "" } } :
        /\ pc = "rejected" => ok = { } /\ error = r[1].error
        /\ pc \in {"interpreted", "planned", "failed"} =>
             ok # { } /\ resultsInParseOrder(r, ok)
        /\ pc = "interpreted" => error = ""
        /\ pc = "planned" =>
             /\ error = "" /\ Len(plans) # 0
             /\ \E sel \in SUBSET DOMAIN interpretation : plansInOrder(sel)
        /\ pc = "failed" =>
             /\ plans = << >> /\ error = SearchTimedOut
             /\ \A k \in DOMAIN interpretation :
                  canThrow(interpretation[k].interpretation, state)

\* one of two parses failed; the result of the other was returned and planned
ErrorSuppressionWitness ==
    /\ pc = "planned"
    /\ Len(cmd) = 2 /\ Len(interpretation) = 1 /\ Len(plans) = 1
    /\ interpretCommand(cmd[1], state).error # ""

AlreadyTrue == << "That is already true!" >>

\* C16: when the goal holds in the start world, planning does not time out
\* and the plan is exactly the narration "That is already true!", with no
\* p, d, l or r
SatisfiedGoalPlan ==
    (pc \in {"execute", "failed", "replanned"} /\ isGoal(startNode, goal)) =>
        /\ pc # "failed"
        /\ error = ""
        /\ plan = AlreadyTrue
        /\ actionsOf(plan) = << >>

\* an object named by the goal is held in the start world, and the plan for
\* holding it has been returned
SatisfiedGoalWitness ==
    /\ pc = "execute"
    /\ ip = 0
    /\ state.holding # null
    /\ goal = << << Literal("holding", << state.holding >>) >> >>

\* C17: planning again for the same goal from the world the executed plan has
\* left returns exactly the narration "That is already true!"
RoundTrip ==
    [][Replan => pc' = "replanned" /\ error' = "" /\ plan' = AlreadyTrue]_vars

\* the executed plan has changed the world and moved the arm, and planning
\* has been run again
RoundTripWitness ==
    /\ pc = "replanned"
    /\ WorldStateNode(holding, stacks) # startNode
    /\ armPos # state.arm
    /\ path = << WorldStateNode(holding, stacks) >>

\* the literals of the formulas interpret returned
returnedLiterals ==
    UNION { UNION { Range(dnf[c]) : c \in DOMAIN dnf } :
              dnf \in UNION { resultsOf(p) : p \in Range(cmd) } }

\* C18: in every returned formula the identifier floor occurs only as
\* argument 1 of an ontop or above literal
FloorOnlySupports ==
    \A lit \in returnedLiterals :
        \A i \in DOMAIN lit.args :
            lit.args[i] = "floor" => i = 2 /\ lit.relation \in {"ontop", "above"}

\* the column of the one stack in which two consecutive nodes differ
changedColumn(prev, next) ==
    CHOOSE c \in 0..(Len(prev.stacks) - 1) : prev.stacks[c + 1] # next.stacks[c + 1]

\* the arm column before the k-th edge of the path
armBefore(k) ==
    IF k = 1 THEN state.arm ELSE changedColumn(path[k - 1], path[k])

\* C19 (action atomicity): the actions of the plan are, edge by edge of the
\* path, as many l (arm right of the changed stack) or r (arm left of it) as
\* the arm is columns away from the changed stack, followed by one p when the
\* next node holds an object and one d otherwise
ActionAtomicity ==
    pc \in {"execute", "replanned"} =>
        \A acts \in { actionsOf(plan) } :
          \A pd \in { { i \in DOMAIN acts : acts[i] \in {"p", "d"} } } :
            /\ Cardinality(pd) = Len(path) - 1
            /\ Len(path) = 1 => acts = << >>
            /\ Len(path) > 1 => nthOf(pd, Len(path) - 1) = Len(acts)
            /\ \A k \in 1..(Len(path) - 1) :
                 \A e \in { nthOf(pd, k) } :
                   \A b \in { IF k = 1 THEN 0 ELSE nthOf(pd, k - 1) } :
                     \A c \in { changedColumn(path[k], path[k + 1]) } :
                       /\ acts[e] = (IF path[k + 1].holding # null THEN "p" ELSE "d")
                       /\ e - b - 1 = absDiff(armBefore(k), c)
                       /\ \A i \in (b + 1)..(e - 1) :
                            acts[i] = (IF armBefore(k) > c THEN "l" ELSE "r")

\* a plan over at least three edges whose arm moves in both directions, once
\* over more than one column
ActionAtomicityWitness ==
    /\ pc = "execute"
    /\ ip = 0
    /\ Len(path) >= 4
    /\ {"l", "r"} \subseteq Range(plan)
    /\ \E k \in 1..(Len(path) - 1) :
         absDiff(armBefore(k), changedColumn(path[k], path[k + 1])) >= 2

\* the entities of a parse: the main entity and those of its location
entitiesOf(p) ==
    Range(p.entity)
    \cup UNION { {p.location[i].entity} \cup Range(p.location[i].entity2) :
                    i \in DOMAIN p.location }

\* the identifier is on a stack, held, or the floor
existsInWorld(id, st) ==
    \/ id = "floor"
    \/ id \in Range(ObjectKeys) /\ st.holding = id
    \/ id \in Range(ObjectKeys) /\ \E i \in DOMAIN st.stacks : id \in Range(st.stacks[i])

\* some binding of the nested candidates puts the identifier where the
\* descriptor says
locatedAsDescribed(id, object, st) ==
    \A loc \in { object.location[1] } :
        \E n \in Range(filterCandidate(loc.entity, st).main) :
            IF loc.relation = "between"
            THEN \E n2 \in Range(filterCandidate(loc.entity2[1], st).main) :
                    hasValidLocation(existingObject(st, id), "between",
                                     existingObject(st, n), existingObject(st, n2))
            ELSE hasValidLocation(existingObject(st, id), loc.relation,
                                  existingObject(st, n), undefined)

\* C20: an identifier is among the candidates of an entity iff it exists in
\* the world, its definition has the attributes of the root descriptor and,
\* for a nested entity, it is located as described relative to a candidate of
\* the nested entity (for between, of both); a held object is never a
\* candidate of a nested entity
ResolverCharacterisation ==
    interpreted =>
        \A p \in Range(cmd) : \A entity \in entitiesOf(p) :
            \A main \in { Range(filterCandidate(entity, state).main) } :
                /\ \A id \in Range(ObjectKeys) \cup {"floor"} :
                     id \in main <=>
                        /\ existsInWorld(id, state)
                        /\ hasSameAttributes(entity.object,
                                             existingObject(state, id).definition)
                        /\ entity.object.location # << >> =>
                              locatedAsDescribed(id, entity.object, state)
                /\ main \subseteq Range(ObjectKeys) \cup {"floor"}
                /\ entity.object.location # << >> => state.holding \notin main

\* the held object has the attributes of a nested descriptor whose nested
\* entity has candidates, and the command has been interpreted
ResolverWitness ==
    /\ interpreted
    /\ state.holding # null
    /\ \E p \in Range(cmd) : \E entity \in Range(p.entity) :
         /\ entity.object.location # << >>
         /\ hasSameAttributes(entity.object, objects[state.holding])
         /\ filterCandidate(entity.object.location[1].entity, state).main # << >>

\* the result interpret gives for the k-th of the parses in ok
validResult(r, ok, k) ==
    [parse |-> cmd[nthOf(ok, k)], interpretation |-> r[nthOf(ok, k)].value]

\* no plan was returned and nothing was executed
nothingPlanned ==
    /\ plan = << >> /\ plans = << >>
    /\ ip = 0 /\ reachedWorld = state

\* planning was run on the one interpretation res
plannedAlone(res) ==
    /\ pc \in {"execute", "failed"}
    /\ interpretation = << res >>
    /\ pc = "execute" =>
          /\ Len(plans) = 1
          /\ plans[1].interpretation = res.interpretation
          /\ plan = plans[1].plan
          /\ plan \in returnedPlans(res.interpretation, state)
    /\ pc = "failed" => error = SearchTimedOut /\ nothingPlanned

\* C21 (parse-ambiguity protocol): with k parses that have an interpretation
\* and no prefix, k > 1 ends in the [parsing] question and nothing is planned
\* or executed; k = 1 goes on to planning without a question; with a prefix N
\* and k > 1, planning goes on with interpretation N alone when N < k, and an
\* error is reported and nothing planned when N >= k
AmbiguityProtocol ==
    pc # "parsed" =>
        \A r \in { [i \in DOMAIN cmd |-> interpretCommand(cmd[i], state)] } :
          \A ok \in { { i \in DOMAIN cmd : r[i].error = "" } } :
            \A k \in { Cardinality(ok) } :
              /\ (k > 1 /\ chosenInterpretation = NaN) =>
                    /\ pc = "asked"
                    /\ nothingPlanned
                    /\ error = "[parsing]" \o questionFrom(
                                  [n \in 1..k |-> validResult(r, ok, n)], 1)
              /\ k = 1 => plannedAlone(validResult(r, ok, 1))
              /\ (k > 1 /\ chosenInterpretation # NaN /\ chosenInterpretation < k) =>
                    plannedAlone(validResult(r, ok, chosenInterpretation + 1))
              /\ (k > 1 /\ chosenInterpretation # NaN /\ chosenInterpretation >= k) =>
                    /\ pc = "aborted"
                    /\ nothingPlanned
                    /\ error # ""
              /\ k = 0 => pc = "rejected" /\ nothingPlanned

\* the prefix "(1) " chose the second of two interpretations, whose plan
\* moves an object and has been executed
AmbiguityProtocolWitness ==
    /\ pc = "execute"
    /\ ip = Len(plan)
    /\ chosenInterpretation = 1
    /\ \A i \in DOMAIN cmd : interpretCommand(cmd[i], state).error = ""
    /\ interpretation[1].parse = cmd[2]
    /\ "d" \in Range(plan)

\* the identifiers on a stack or held
presentIn(node) ==
    (UNION { Range(node.stacks[i]) : i \in DOMAIN node.stacks }
       \cup { node.holding }) \ {null}

\* the shortest of form, color form, size color form that no other object
\* of the node matches; the full description when none does
shortestDescription(id, node) ==
    LET d == objects[id]
        others == presentIn(node) \ {id}
    IN  IF \A o \in others : objects[o].form # d.form THEN d.form
        ELSE IF \A o \in others :
                    ~(objects[o].form = d.form /\ objects[o].color = d.color)
        THEN d.color \o " " \o d.form
        ELSE d.size \o " " \o d.color \o " " \o d.form

\* the object picked up or dropped on the k-th edge of the path
handledOn(k) ==
    IF path[k + 1].holding = null THEN path[k].holding ELSE path[k + 1].holding

\* C22: the narration of every pick and drop of the plan names the object by
\* the shortest description that is unique among the objects present in the
\* world
MinimalDescriptionInWorld ==
    pc = "execute" =>
        \A k \in 1..(Len(path) - 1) :
            \E i \in DOMAIN plan :
                plan[i] = (IF path[k + 1].holding = null
                           THEN "Dropping the " ELSE "Picking up the ")
                          \o shortestDescription(handledOn(k), path[k])

\* the parse is a between command whose second reference is quantified "the"
isBetweenSecondThe(p) ==
    /\ p.location # << >>
    /\ p.location[1].relation = "between"
    /\ p.location[1].entity2[1].quantifier = "the"

\* C23: a returned formula of a between command whose second reference
\* entity is quantified "the" has one and the same identifier at argument 2
\* of all its between literals
BetweenSecondTheBindsOne ==
    \A p \in { q \in Range(cmd) : isBetweenSecondThe(q) } :
        \A dnf \in resultsOf(p) :
            \A c1, c2 \in DOMAIN dnf :
                \A i \in DOMAIN dnf[c1], j \in DOMAIN dnf[c2] :
                    dnf[c1][i].args[3] = dnf[c2][j].args[3]

\* "the size color form" of an identifier
fullDescription(id, st) ==
    "the " \o existingObject(st, id).definition.size
    \o " " \o existingObject(st, id).definition.color
    \o " " \o existingObject(st, id).definition.form

\* the identifiers at argument column col (0-based) of the first literal of
\* the conjunctions, each once, in order of first occurrence
columnCandidates(dnf, col) ==
    LET ids == [c \in DOMAIN dnf |-> dnf[c][1].args[col + 1]]
        firstOf(S) == [id \in S |->
                          CHOOSE c \in DOMAIN ids :
                              ids[c] = id /\ \A d \in 1..(c - 1) : ids[d] # id]
        ordered(S, first) ==
            [n \in 1..Cardinality(S) |->
                CHOOSE id \in S : Cardinality({ o \in S : first[o] < first[id] }) = n - 1]
    IN  Only({ ordered(S, first) : S \in { Range(ids) }, first \in { firstOf(Range(ids)) } })

RECURSIVE payloadFrom(_, _, _)
payloadFrom(ids, i, st) ==
    IF i > Len(ids) THEN ""
    ELSE (IF i > 1 THEN "|" ELSE "") \o fullDescription(ids[i], st)
         \o payloadFrom(ids, i + 1, st)

\* the one parse was rejected with an [ambiguity] Error
clarificationRaised ==
    /\ pc = "rejected"
    /\ Len(cmd) = 1
    /\ Len(error) >= Len("[ambiguity]")
    /\ SubSeq(error, 1, Len("[ambiguity]")) = "[ambiguity]"

\* C24: the payload of a raised [ambiguity] error lists, for one argument
\* column, the description of every distinct identifier in that column of the
\* first literals of the formula, once each, in order of first occurrence
ClarificationPayload ==
    clarificationRaised =>
        \A dnf \in { generatedDNF(cmd[1], state).value } :
            \E col \in 0..(Len(dnf[1][1].args) - 1) :
                error = "[ambiguity]" \o payloadFrom(columnCandidates(dnf, col), 1, state)

-----------------------------------------------------------------------------
(* Properties of the admitted goals and of the search graph                 *)

\* columns of the placements tried for an admitted goal
PlacementColumns == 3

\* the orders in which the objects of S can be laid down
orderings(S) ==
    { s \in [1..Cardinality(S) -> S] : \A i, j \in DOMAIN s : i # j => s[i] # s[j] }

\* the stacks that hold the objects of S once each
placementsOf(S) ==
    { [i \in 1..PlacementColumns |-> SelectSeq(order, LAMBDA x : col[x] = i)] :
          order \in orderings(S), col \in [S -> 1..PlacementColumns] }

\* every object lies where the drop edges of the graph may have put it
legallyStacked(st) ==
    \A i \in DOMAIN st : \A j \in 2..Len(st[i]) :
        isStackingAllowedByPhysics(objects[st[i][j]], objects[st[i][j - 1]])

\* the placements of the objects named by ids, alone or with one more object
legalPlacements(ids) ==
    LET named == Range(ids) \ {"floor"}
    IN  { st \in UNION { placementsOf(named \cup extra) :
                           extra \in { { } } \cup { {o} : o \in Range(ObjectKeys) } } :
            legallyStacked(st) }

\* C25: a goal that isValidGoalLocation admits for two objects holds, by
\* hasValidLocation, in some placement of the objects that legal drops produce
AdmittedGoalsAchievable ==
    (pc = "goalChecked" /\ verdict = TRUE /\ Len(args) = 2) =>
        \E st \in legalPlacements(args) :
            literalHolds(WorldStateNode(null, st), Literal(relation, args))

\* how often the identifier id occurs in a node, on the stacks and in the gripper
occurrences(node, id) ==
    Cardinality({ p \in { << i, j >> : i \in DOMAIN node.stacks, j \in 1..Len(Flatten(node.stacks)) } :
                    p[2] <= Len(node.stacks[p[1]]) /\ node.stacks[p[1]][p[2]] = id })
    + (IF node.holding = id THEN 1 ELSE 0)

\* node holds the objects of the start node, each once, on as many stacks
conserved(node) ==
    /\ Len(node.stacks) = Len(startNode.stacks)
    /\ \A id \in Range(ObjectKeys) : occurrences(node, id) = occurrences(startNode, id)
    /\ node.holding \in {null} \cup Range(ObjectKeys)

\* C26: every node the search reaches, and every node an edge leads to from
\* there, holds every identifier of the start node exactly once across stacks
\* and gripper and no other, on the same number of stacks
ObjectConservation ==
    searching =>
        /\ \A id \in Range(ObjectKeys) : occurrences(startNode, id) <= 1
        /\ \A i \in DOMAIN path : conserved(path[i])
        /\ \A i \in DOMAIN outgoingEdges(lastNode) : conserved(outgoingEdges(lastNode)[i].to)

\* the search has picked an object up and put it down on another stack
ObjectConservationWitness ==
    /\ searching
    /\ \E i \in DOMAIN path :
          /\ i >= 3
          /\ path[i].holding = null
          /\ path[i - 1].holding # null
          /\ path[i].stacks # path[i - 2].stacks

\* the nodes the edges of the graph lead to from node
targets(node) == { outgoingEdges(node)[i].to : i \in DOMAIN outgoingEdges(node) }

\* C27: from a start node whose stacks are legally stacked, every node the
\* search reaches, and every node an edge leads to from there, is legally
\* stacked, and every edge followed or offered has an edge leading back
PhysicalValidityPreserved ==
    (searching /\ legallyStacked(startNode.stacks)) =>
        /\ \A i \in DOMAIN path : legallyStacked(path[i].stacks)
        /\ \A i \in 2..Len(path) : path[i - 1] \in targets(path[i])
        /\ \A n \in targets(lastNode) :
              legallyStacked(n.stacks) /\ lastNode \in targets(n)

\* from a legally stacked start node with an object lying on another, the
\* search has picked an object off another and dropped one onto another
PhysicalValidityWitness ==
    /\ searching
    /\ legallyStacked(startNode.stacks)
    /\ \E i \in DOMAIN startNode.stacks : Len(startNode.stacks[i]) >= 2
    /\ \E i \in 2..Len(path), c \in DOMAIN lastNode.stacks :
          /\ path[i].holding = null
          /\ Len(path[i].stacks[c]) >= 2
          /\ Len(path[i].stacks[c]) > Len(path[i - 1].stacks[c])
    /\ \E i \in 2..Len(path), c \in DOMAIN lastNode.stacks :
          /\ path[i].holding # null
          /\ Len(path[i].stacks[c]) >= 1
          /\ Len(path[i].stacks[c]) < Len(path[i - 1].stacks[c])

\* C28: for a formula with a conjunction and no empty conjunction the
\* heuristic is a natural number, the least over the conjunctions of the
\* greatest bound of their literals; it is 0 exactly in the goal nodes; a
\* literal that holds is bounded by 0 and one that does not by 1 or more
HeuristicShape ==
    (searching /\ Len(goal) >= 1 /\ \A c \in DOMAIN goal : goal[c] # << >>) =>
        /\ ~heuristicThrows(lastNode, goal)
        /\ \A h \in { heuristic(lastNode, goal) } :
              /\ h \in Nat
              /\ \E c \in DOMAIN goal :
                    /\ \A i \in DOMAIN goal[c] : literalHeuristic(lastNode, goal[c][i]) <= h
                    /\ \E i \in DOMAIN goal[c] : literalHeuristic(lastNode, goal[c][i]) = h
              /\ \A c \in DOMAIN goal :
                    \E i \in DOMAIN goal[c] : literalHeuristic(lastNode, goal[c][i]) >= h
              /\ (h = 0) <=> isGoal(lastNode, goal)
        /\ \A c \in DOMAIN goal : \A i \in DOMAIN goal[c] :
              IF literalHolds(lastNode, goal[c][i])
              THEN literalHeuristic(lastNode, goal[c][i]) = 0
              ELSE literalHeuristic(lastNode, goal[c][i]) >= 1

\* C29: the list of candidates the resolver returns for an entity of the
\* parse names no identifier twice, and a take of "all" whose entity matches
\* one object is not rejected for taking several
ResolvedOnce ==
    interpreted =>
        \A p \in Range(cmd) :
            /\ \A entity \in entitiesOf(p) :
                  \A main \in { filterCandidate(entity, state).main } :
                      \A i, j \in DOMAIN main : i # j => main[i] # main[j]
            /\ (isTakeAll(p) /\ Len(cmd) = 1
                  /\ Cardinality(Range(mainCandidates(p, state).main)) = 1)
                  => error # "Only one object can be held at a time!"

\* C30: while the plan is executed no instruction has failed, the arm stands
\* over a stack, and the instruction that comes next can be carried out: a p
\* with an empty gripper over a stack that is not empty, a d with an object
\* held over a stack that is empty or whose top may carry it, an l or r that
\* leaves the arm over a stack
ExecutionSafety ==
    pc = "execute" =>
        /\ ~fault
        /\ armPos \in 0..(Len(stacks) - 1)
        /\ ip < Len(plan) =>
              /\ nextInstruction = "p" =>
                    holding = null /\ Len(stacks[armPos + 1]) > 0
              /\ nextInstruction = "d" =>
                    /\ holding # null
                    /\ \/ Len(stacks[armPos + 1]) = 0
                       \/ isStackingAllowedByPhysics(objects[holding],
                                                     objects[top(stacks[armPos + 1])])
              /\ nextInstruction = "l" => armPos > 0
              /\ nextInstruction = "r" => armPos < Len(stacks) - 1

\* a plan with both arm directions is under execution and its next
\* instruction drops the held object onto another object
ExecutionSafetyWitness ==
    /\ pc = "execute"
    /\ ip < Len(plan)
    /\ {"l", "r", "p", "d"} \subseteq Range(SubSeq(plan, 1, ip))
    /\ nextInstruction = "d"
    /\ Len(stacks[armPos + 1]) > 0

====
